---- MODULE Spec2Model ----
(***************************************************************************)
(* Model of the hybrid retrieval subsystem of the knowledge-base backend:  *)
(* QueryEngine (backend/src/core/query_engine.py), the retriever factory   *)
(* (backend/src/core/retrievers/retriever_factory.py) and the query cache  *)
(* the engine reads and writes.                                            *)
(*                                                                         *)
(* Relevance scores are integers (a fixed-point scale); a QueryResult is a *)
(* record [content, relevance_score, collection_name, source_type, tag],   *)
(* tag standing for the metadata a filter looks at.                        *)
(***************************************************************************)
EXTENDS Integers, Sequences, FiniteSets, TLC

VARIABLES
    chroma_client,   \* QueryEngine.chroma_client is set (TRUE) or None (FALSE)
    embeddings,      \* QueryEngine.embeddings is set (TRUE) or None (FALSE)
    cache,           \* query_cache: a function from cache keys to stored lists
    pc,              \* position of the query call: idle, fanout, returned, raised
    call,            \* the arguments of the query call in progress
    target,          \* target_collections of the call
    tasks,           \* one record per per-collection task of the call
    result,          \* the list query returned
    discovered,      \* list_collections was called by this call
    cacheTouched,    \* query_cache.get or .set was called by this call
    calls,           \* number of query calls started
    origin,          \* for each cache entry: the arguments of the task that stored it
    order,           \* the tasks of the call in the order in which they completed
    mIn,             \* _merge_results: all_results
    mK,              \* _merge_results: k
    mStrategy,       \* _merge_results: merge_strategy
    mOut,            \* _merge_results: the list returned
    mPc,             \* _merge_results: "in" before the call, "out" after it
    fPc,             \* EnhancedHybridRetriever: new, built, raised (constructor), done
    fVia,            \* built by the constructor ("direct") or by the factory ("factory")
    fRetrievers,     \* self.retrievers: the number of sub-retrievers
    fWeightsArg,     \* the weights argument the caller supplied
    fWeights,        \* self.weights (tenths)
    fTopK,           \* self.top_k
    fMode,           \* the retrieval that ran: "async" (_aretrieve) or "sync" (_retrieve)
    fOutcomes,       \* what each sub-retriever did: its list, or a failure
    fOut,            \* the list retrieve returned
    fQueryResults,   \* the QueryResult list the engine makes of the fused list
    bm25_index,      \* BM25IndexManager.bm25_index: None, or the corpus it was built from
    nodes,           \* BM25IndexManager.nodes
    node_id_map,     \* BM25IndexManager.node_id_map: identifier -> zero-based position
    index_file,      \* the file at index_path: absent, a pickled index, or unreadable
    iOp,             \* the last operation on the manager
    iArg,            \* the chunks handed to the last add_nodes
    iRaised,         \* the last operation raised
    wPc,             \* the writer's save: "idle", or "opened" between open and dump
    wPrev,           \* the file as it was when the writer's save began
    rIndex,          \* what the reader's manager holds after its load
    tPc,             \* _tokenize_text: "in" before the call, "out" after it
    tText,           \* _tokenize_text: text, a sequence of characters
    tTokens,         \* the tokens _tokenize_text returned
    pPc,             \* process_document_pipeline: idle, start, routed, read, finally, exit
    pIn,             \* the file the pipeline was called with: on disk or not, and its text
    pFile,           \* a file exists at file_path
    pParams,         \* what the routing decision said: requires_validation, preprocessing_steps
    pPending,        \* how the try block was left: results, failed (empty document), raise
    pExit,           \* how the call ended: returned, failed, raised
    rtPc,            \* _make_routing_decision: idle, in, out
    routing_rules,   \* DocumentRouterService.routing_rules: rules and defaults
    classification_result, \* what the classifier said of the document
    decision,        \* the routing decision returned
    hPc,             \* the hybrid path for one collection: idle, in, out
    hStored,         \* the number of chunks the collection holds
    hCall,           \* n_results and merge_strategy of the query call
    hResult,         \* the list query returned
    cPc,             \* _chunk_text: idle, call, loop, returned
    text_length,     \* _chunk_text: len(text)
    chunk_size,      \* _chunk_text: chunk_size
    overlap,         \* _chunk_text: overlap
    start,           \* _chunk_text: start
    chunks,          \* _chunk_text: chunks, each as the set of text positions it holds
    uPc,             \* each upload request: idle, waiting, woken, inside, done
    uValue,          \* UPLOAD_SEMAPHORE._value: the free slots
    uWaiters,        \* UPLOAD_SEMAPHORE._waiters: the requests queued, oldest first
    uExit,           \* how each request left upload_documents
    bPc,             \* the score blend of search_documents: "in", "out"
    combined_results,\* the candidates of one collection: vector_score, bm25_score
    bScores,         \* relevance_score of each candidate, as a fraction
    dPc,             \* the vector-only path: "in", "out"
    distances,       \* results['distances'][0] of collection.query
    dMinRelevance,   \* min_relevance of the call
    dResults         \* the relevance scores of the results returned

vars == <<chroma_client, embeddings, cache, pc, call, target, tasks, result,
          discovered, cacheTouched, calls, origin, order, mIn, mK, mStrategy, mOut, mPc,
          fPc, fVia, fRetrievers, fWeightsArg, fWeights, fTopK, fMode, fOutcomes, fOut,
          fQueryResults, bm25_index, nodes, node_id_map, index_file, iOp, iArg, iRaised,
          wPc, wPrev, rIndex, tPc, tText, tTokens,
          pPc, pIn, pFile, pParams, pPending, pExit,
          rtPc, routing_rules, classification_result, decision,
          hPc, hStored, hCall, hResult,
          cPc, text_length, chunk_size, overlap, start, chunks,
          uPc, uValue, uWaiters, uExit,
          bPc, combined_results, bScores, dPc, distances, dMinRelevance, dResults>>

engineVars == <<chroma_client, embeddings, cache, pc, call, target, tasks, result,
                discovered, cacheTouched, calls, origin, order>>

mergeVars == <<mIn, mK, mStrategy, mOut, mPc>>

fusionVars == <<fPc, fVia, fRetrievers, fWeightsArg, fWeights, fTopK, fMode, fOutcomes, fOut,
                fQueryResults>>

indexVars == <<bm25_index, nodes, node_id_map, index_file, iOp, iArg, iRaised>>

raceVars == <<wPc, wPrev, rIndex>>

tokVars == <<tPc, tText, tTokens>>

blendVars == <<bPc, combined_results, bScores>>

relVars == <<dPc, distances, dMinRelevance, dResults>>

pipeVars == <<pPc, pIn, pFile, pParams, pPending, pExit>>

routeVars == <<rtPc, routing_rules, classification_result, decision>>

countVars == <<hPc, hStored, hCall, hResult>>

chunkVars == <<cPc, text_length, chunk_size, overlap, start, chunks>>

uploadVars == <<uPc, uValue, uWaiters, uExit>>

\* the ingestion side: pipeline, chunking, routing, upload; and the hybrid count
ingestVars == <<pipeVars, routeVars, countVars, chunkVars, uploadVars>>

\* the query side, which the ingestion side leaves alone
queryVars == <<engineVars, mergeVars, fusionVars, indexVars, raceVars, tokVars, blendVars,
               relVars>>

\* the variables of the components that the engine, the fusion and the index
\* manager leave alone
otherVars == <<raceVars, tokVars, blendVars, relVars, ingestVars>>

----------------------------------------------------------------------------
(* Bounds *)

MaxK == 2            \* n_results of an engine call ranges over 0..MaxK
MaxCalls == 2        \* query calls in one behaviour of CacheSpec
MaxMergeLen == 4     \* length of all_results handed to _merge_results
MaxMergeK == 4       \* k handed to _merge_results ranges over 0..MaxMergeK
MaxListLen == 2      \* length of the list a sub-retriever of the fusion returns
MaxChunks == 2       \* length of the list handed to add_nodes, and of the store's answer

Collections == {"A", "B", "C"}
Strategies == {"interleave", "best"}
NoFilter == "none"                   \* filters = {} / None
FilterSets == {NoFilter, "x"}        \* "x": where tag = x
MinRelevances == {0, 2}
QueryTexts == {"q"}

----------------------------------------------------------------------------
(* Sequence helpers *)

Range(s) == {s[i] : i \in DOMAIN s}

Min2(a, b) == IF a <= b THEN a ELSE b

\* s[:n] for n >= 0
Take(s, n) == SubSeq(s, 1, Min2(n, Len(s)))

RECURSIVE SelectBy(_, _)
\* [x for x in s if Test(x)], Test given as the set of elements that pass
SelectBy(s, pass) ==
    IF s = <<>> THEN <<>>
    ELSE IF Head(s) \in pass THEN <<Head(s)>> \o SelectBy(Tail(s), pass)
    ELSE SelectBy(Tail(s), pass)

RECURSIVE Concat(_)
Concat(ss) == IF ss = <<>> THEN <<>> ELSE Head(ss) \o Concat(Tail(ss))

----------------------------------------------------------------------------
(* QueryResult and the relevance filter *)

QueryResult(content, score, coll, src, tag) ==
    [content |-> content, relevance_score |-> score, collection_name |-> coll,
     source_type |-> src, tag |-> tag]

\* a filter that keeps everything
FilterKeepAll(results, min_relevance) == results

\* [res for res in results if res.relevance_score >= min_relevance]
FilterByRelevance(results, min_relevance) ==
    SelectBy(results, {r \in Range(results) : r.relevance_score >= min_relevance})

----------------------------------------------------------------------------
(* QueryEngine._merge_results *)

RECURSIVE InsertDesc(_, _)
\* insert x after every element whose score is >= x's: a stable descending order
InsertDesc(sorted, x) ==
    IF sorted = <<>> THEN <<x>>
    ELSE IF Head(sorted).relevance_score >= x.relevance_score
         THEN <<Head(sorted)>> \o InsertDesc(Tail(sorted), x)
         ELSE <<x>> \o sorted

RECURSIVE SortDescFrom(_, _)
SortDescFrom(s, acc) ==
    IF s = <<>> THEN acc ELSE SortDescFrom(Tail(s), InsertDesc(acc, Head(s)))

\* all_results.sort(key=relevance_score, reverse=True): stable
SortByRelevanceDesc(s) == SortDescFrom(s, <<>>)

RECURSIVE FirstSeenFrom(_, _)
FirstSeenFrom(s, acc) ==
    IF s = <<>> THEN acc
    ELSE IF Head(s).collection_name \in Range(acc)
         THEN FirstSeenFrom(Tail(s), acc)
         ELSE FirstSeenFrom(Tail(s), Append(acc, Head(s).collection_name))

\* results_by_collection.keys(): collection names in first-seen order
CollectionOrder(all_results) == FirstSeenFrom(all_results, <<>>)

\* results_by_collection[name]
ResultsOf(all_results, name) ==
    SelectBy(all_results, {r \in Range(all_results) : r.collection_name = name})

MaxLenOf(all_results, names) ==
    LET lens == {Len(ResultsOf(all_results, names[j])) : j \in DOMAIN names}
    IN  IF lens = {} THEN 0 ELSE CHOOSE n \in lens : \A l \in lens : l <= n

RECURSIVE InterleaveLoop(_, _, _, _, _, _)
\* the two nested for loops; i is the zero-based round, j the position in names.
\* The length check follows the (conditional) append, for every collection visited.
InterleaveLoop(all_results, names, i, j, merged, k) ==
    IF i >= MaxLenOf(all_results, names) THEN merged
    ELSE IF j > Len(names)
         THEN IF Len(merged) >= k THEN merged
              ELSE InterleaveLoop(all_results, names, i + 1, 1, merged, k)
         ELSE LET group == ResultsOf(all_results, names[j])
                  m2 == IF i < Len(group) THEN Append(merged, group[i + 1]) ELSE merged
              IN  IF Len(m2) >= k THEN m2
                  ELSE InterleaveLoop(all_results, names, i, j + 1, m2, k)

MergeInterleave(all_results, k) ==
    InterleaveLoop(all_results, CollectionOrder(all_results), 0, 1, <<>>, k)

\* the cut made before the sort
MergeBestCutFirst(all_results, k) == SortByRelevanceDesc(Take(all_results, k))

MergeBest(all_results, k) == Take(SortByRelevanceDesc(all_results), k)

MergeResults(all_results, k, merge_strategy) ==
    IF all_results = <<>> THEN <<>>
    ELSE IF merge_strategy = "best" THEN MergeBest(all_results, k)
    ELSE MergeInterleave(all_results, k)

----------------------------------------------------------------------------
(* The vector store and the retrievers, as the engine sees them.           *)
(* Each collection holds fixed documents; what can vary from one task to   *)
(* the next is the scenario: the collection's state in the store and the   *)
(* failure, if any, that the hybrid path and the fallback path meet.       *)

\* the ranked list the fusion retriever returns for a collection that holds
\* documents (fused score descending); it receives neither k nor filters
HybridDocs(c) ==
    CASE c = "A" -> << QueryResult("a1", 3, "A", "hybrid", "x"),
                       QueryResult("a2", 2, "A", "vector", "y"),
                       QueryResult("a3", 1, "A", "hybrid", "x") >>
      [] c = "B" -> << QueryResult("b1", 1, "B", "hybrid", "y") >>
      [] OTHER   -> << QueryResult("c1", 3, "C", "vector", "x"),
                       QueryResult("c2", 0, "C", "hybrid", "y") >>

\* the documents of a collection in the order of vector similarity, with
\* relevance = 1 - distance
VectorDocs(c) ==
    CASE c = "A" -> << QueryResult("a2", 3, "A", "vector", "y"),
                       QueryResult("a1", 2, "A", "vector", "x"),
                       QueryResult("a3", 0, "A", "vector", "x") >>
      [] c = "B" -> << QueryResult("b1", 2, "B", "vector", "y") >>
      [] OTHER   -> << QueryResult("c1", 1, "C", "vector", "x"),
                       QueryResult("c2", 1, "C", "vector", "y") >>

Matches(r, filters) == filters = NoFilter \/ r.tag = filters

\* collection.query(query_embeddings, n_results=k, where=filters)
VectorQuery(c, k, filters) ==
    LET docs == VectorDocs(c)
    IN  Take(SelectBy(docs, {r \in Range(docs) : Matches(r, filters)}), k)

\* store:    the collection is absent, empty, or holds documents ("full")
\* hybrid:   what fails on the hybrid path, apart from the collection being absent
\* fallback: what fails on the vector-only path
Scenarios ==
    { [store |-> "absent", hybrid |-> "ok", fallback |-> "ok"] }
    \cup { [store |-> s, hybrid |-> h, fallback |-> "ok"] :
             s \in {"full", "empty"}, h \in {"ok", "handle_error", "empty_error"} }
    \cup { [store |-> s, hybrid |-> h, fallback |-> f] :
             s \in {"full", "empty"}, h \in {"build_error", "retrieve_error"},
             f \in {"ok", "handle_error", "query_error"} }

----------------------------------------------------------------------------
(* query_cache: get(collection, query, k, filters) and                     *)
(* set(collection, query, k, results, filters)                             *)

MakeKey(collection, query, k, filters) ==
    [collection |-> collection, query |-> query, k |-> k, filters |-> filters]

\* a miss is [hit |-> FALSE]: get returned None
CacheGet(ch, collection, query, k, filters) ==
    LET key == MakeKey(collection, query, k, filters)
    IN  IF key \in DOMAIN ch THEN [hit |-> TRUE, val |-> ch[key]]
        ELSE [hit |-> FALSE, val |-> <<>>]

CacheSet(ch, collection, query, k, results, filters) ==
    LET key == MakeKey(collection, query, k, filters)
    IN  [x \in DOMAIN ch \cup {key} |-> IF x = key THEN results ELSE ch[x]]

EmptyCache == [x \in {} |-> <<>>]

----------------------------------------------------------------------------
(* retriever_factory.get_retriever_for_collection *)

\* "retriever", or the exception raised
GetRetrieverForCollection(scen) ==
    IF scen.store = "absent" \/ scen.hybrid = "handle_error"
    THEN "CollectionNotFoundError"      \* lines 49-53: any exception of get_collection
    ELSE IF scen.hybrid = "build_error" THEN "RetrievalError"
    ELSE "retriever"

\* retriever.aretrieve(query_bundle): the list returned, for a retriever that was built
HybridRetrieve(c, scen) == IF scen.store = "empty" THEN <<>> ELSE HybridDocs(c)

----------------------------------------------------------------------------
(* QueryEngine._query_single_collection (the vector-only fallback) and     *)
(* QueryEngine._query_single_collection_interface                          *)
(* Both return [st, res, raw, via, hyb, fb, cache, wrote]: st is "ok" with *)
(* the list res, or "exc" (the coroutine raised); raw is the unfiltered    *)
(* list res was taken from; cache is the cache afterwards.                 *)

\* a lookup that leaves the filters out
CacheLookupNoFilters(ch, collection_name, query_text, k, filters) ==
    CacheGet(ch, collection_name, query_text, k, NoFilter)

\* the arguments the engine hands to query_cache.get
CacheLookup(ch, collection_name, query_text, k, filters) ==
    CacheGet(ch, collection_name, query_text, k, filters)

\* caching what is left after the relevance filter
CachedFiltered(query_results, min_relevance) ==
    FilterByRelevance(query_results, min_relevance)

\* the list the engine hands to query_cache.set
CachedValue(query_results, min_relevance) == query_results

TaskOutcome(st, res, raw, via, hyb, fb, ch, wrote) ==
    [st |-> st, res |-> res, raw |-> raw, via |-> via, hyb |-> hyb, fb |-> fb,
     cache |-> ch, wrote |-> wrote]

QuerySingleCollection(ch, collection_name, query_text, k, min_relevance, filters, scen, hyb) ==
    LET cached == CacheLookup(ch, collection_name, query_text, k, filters)
    IN  IF cached.hit
        THEN TaskOutcome("ok", FilterByRelevance(cached.val, min_relevance), cached.val,
                         "hit", hyb, "hit", ch, FALSE)
        ELSE IF scen.store = "absent" \/ scen.fallback = "handle_error"
        THEN TaskOutcome("exc", <<>>, <<>>, "none", hyb, "RetrievalError", ch, FALSE)
        ELSE IF scen.store = "empty"
        THEN TaskOutcome("exc", <<>>, <<>>, "none", hyb, "EmptyCollectionError", ch, FALSE)
        ELSE IF scen.fallback = "query_error"
        THEN TaskOutcome("exc", <<>>, <<>>, "none", hyb, "RetrievalError", ch, FALSE)
        ELSE LET query_results == VectorQuery(collection_name, k, filters)
             IN  TaskOutcome("ok", FilterByRelevance(query_results, min_relevance),
                             query_results, "fallback", hyb, "ok",
                             CacheSet(ch, collection_name, query_text, k,
                                      CachedValue(query_results, min_relevance), filters),
                             TRUE)

\* a return without the relevance filter
ReturnUnfiltered(results, min_relevance) == results

\* the relevance filter of the return statements of the interface method
ReturnFiltered(results, min_relevance) == FilterByRelevance(results, min_relevance)

QuerySingleCollectionInterface(ch, collection_name, query_text, k, min_relevance, filters, scen) ==
    LET cached == CacheLookup(ch, collection_name, query_text, k, filters)
        built == GetRetrieverForCollection(scen)
    IN  IF cached.hit
        THEN TaskOutcome("ok", ReturnFiltered(cached.val, min_relevance), cached.val,
                         "hit", "none", "none", ch, FALSE)
        ELSE IF built = "CollectionNotFoundError"
        THEN TaskOutcome("ok", <<>>, <<>>, "notfound",
                         IF scen.store = "absent" THEN "absent" ELSE "handle_error",
                         "none", ch, FALSE)
        ELSE IF built = "retriever" /\ scen.hybrid = "empty_error"
        THEN TaskOutcome("ok", <<>>, <<>>, "empty", "empty_error", "none", ch, FALSE)
        ELSE IF built = "RetrievalError" \/ scen.hybrid = "retrieve_error"
        THEN QuerySingleCollection(ch, collection_name, query_text, k, min_relevance,
                                   filters, scen, scen.hybrid)
        ELSE LET query_results == HybridRetrieve(collection_name, scen)
             IN  TaskOutcome("ok", ReturnFiltered(query_results, min_relevance),
                             query_results, "hybrid", "none", "none",
                             CacheSet(ch, collection_name, query_text, k,
                                      CachedValue(query_results, min_relevance), filters),
                             TRUE)

----------------------------------------------------------------------------
(* EnhancedHybridRetriever: weighted reciprocal rank fusion.                *)
(* Weights are in tenths (1.0 is 10) and every score is multiplied by      *)
(* RrfScale, the product of the denominators rank + k that can occur, so   *)
(* that weight * 1/(rank + k) is an integer and sums are exact.            *)

RrfK == 60           \* k: int = 60
DefaultTopK == 10    \* top_k: int = 10
WeightOne == 10      \* the weight 1.0
FactoryWeights == <<7, 3>>     \* weights = [0.7, 0.3]

RECURSIVE RrfScaleFrom(_)
RrfScaleFrom(rank) ==
    IF rank >= MaxListLen THEN 1 ELSE (rank + RrfK) * RrfScaleFrom(rank + 1)

RrfScale == RrfScaleFrom(0)

\* a contribution that ignores the weight of the sub-retriever
ContributionUnweighted(weight, rank) == WeightOne * (RrfScale \div (rank + RrfK))

\* a contribution that grows with the rank
ContributionGrowing(weight, rank) == weight * (rank + RrfK)

\* rank_score = weight * (1.0 / (rank + self.k))
Contribution(weight, rank) == weight * (RrfScale \div (rank + RrfK))

NoNodeId == "no_id"                  \* node_id is None

\* hashlib.md5(content.encode()).hexdigest()
Md5(content) == CASE content = "t1" -> "md5_t1"
                  [] content = "t2" -> "md5_t2"

\* the key of a node in fused_scores: its node_id, else the hash of its text
NodeKey(node) == IF node.node_id # NoNodeId THEN node.node_id ELSE Md5(node.text)

\* the nodes sub-retrievers return; meta tells apart two node objects that have
\* the same identifier, or no identifier and the same text
FusionNodes ==
    { [node_id |-> "n1", text |-> "t1", meta |-> "v"],
      [node_id |-> "n2", text |-> "t2", meta |-> "v"],
      [node_id |-> "n1", text |-> "t2", meta |-> "b"],
      [node_id |-> NoNodeId, text |-> "t1", meta |-> "v"],
      [node_id |-> NoNodeId, text |-> "t1", meta |-> "b"] }

SubLists == UNION { [1..n -> FusionNodes] : n \in 0..MaxListLen }

\* what a sub-retriever does when asked: it returns a list or it raises
Outcomes == { [ok |-> TRUE, list |-> l] : l \in SubLists } \cup { [ok |-> FALSE, list |-> <<>>] }

\* the weights argument: None, or a list
NoWeights == [given |-> FALSE, list |-> <<>>]
WeightArgs == { NoWeights } \cup
              { [given |-> TRUE, list |-> w] : w \in { <<>>, <<WeightOne>>, FactoryWeights } }

RetrieverCounts == {0, 1, 2}
TopKs == {1, 2, DefaultTopK}

\* lines 111-131: one node of one sub-retriever's list enters fused_scores, a
\* dict kept here as the list of its values in insertion order
FuseNode(fused, node, retriever_idx, rank, weight) ==
    LET key == NodeKey(node)
        withKey == IF \E j \in DOMAIN fused : fused[j].key = key
                   THEN fused
                   ELSE Append(fused, [key |-> key, node |-> node, score |-> 0,
                                       retriever_contributions |-> <<>>])
        j == CHOOSE x \in DOMAIN withKey : withKey[x].key = key
        rank_score == Contribution(weight, rank)
        old == withKey[j].retriever_contributions
    IN  [withKey EXCEPT
            ![j].score = @ + rank_score,
            ![j].retriever_contributions =
                [x \in DOMAIN old \cup {retriever_idx} |->
                    IF x = retriever_idx
                    THEN [rank |-> rank + 1, contribution |-> rank_score]
                    ELSE old[x]]]

RECURSIVE FuseList(_, _, _, _, _)
\* for rank, node_with_score in enumerate(results)
FuseList(fused, results, retriever_idx, rank, weight) ==
    IF rank >= Len(results) THEN fused
    ELSE FuseList(FuseNode(fused, results[rank + 1], retriever_idx, rank, weight),
                  results, retriever_idx, rank + 1, weight)

RECURSIVE FuseLists(_, _, _, _)
\* for retriever_idx, (results, weight) in enumerate(zip(results_per_retriever, weights))
FuseLists(fused, results_per_retriever, weights, retriever_idx) ==
    IF retriever_idx >= Min2(Len(results_per_retriever), Len(weights)) THEN fused
    ELSE FuseLists(FuseList(fused, results_per_retriever[retriever_idx + 1],
                            retriever_idx, 0, weights[retriever_idx + 1]),
                   results_per_retriever, weights, retriever_idx + 1)

RECURSIVE InsertByScoreUnstable(_, _)
\* an insertion that puts an item before the items of equal score
InsertByScoreUnstable(sorted, x) ==
    IF sorted = <<>> THEN <<x>>
    ELSE IF Head(sorted).score > x.score
         THEN <<Head(sorted)>> \o InsertByScoreUnstable(Tail(sorted), x)
         ELSE <<x>> \o sorted

RECURSIVE InsertByScore(_, _)
\* insert x after every item whose score is >= x's: a stable descending order
InsertByScore(sorted, x) ==
    IF sorted = <<>> THEN <<x>>
    ELSE IF Head(sorted).score >= x.score
         THEN <<Head(sorted)>> \o InsertByScore(Tail(sorted), x)
         ELSE <<x>> \o sorted

RECURSIVE SortFusedFrom(_, _)
SortFusedFrom(s, acc) ==
    IF s = <<>> THEN acc ELSE SortFusedFrom(Tail(s), InsertByScore(acc, Head(s)))

\* sorted(fused_scores.values(), key=score, reverse=True): stable
SortByFusedScore(s) == SortFusedFrom(s, <<>>)

\* _fuse_results
FuseResults(results_per_retriever, weights) ==
    IF results_per_retriever = <<>> THEN <<>>
    ELSE SortByFusedScore(FuseLists(<<>>, results_per_retriever, weights, 0))

\* a loop that leaves the failed sub-retrievers out of processed_results
ProcessedResultsDropFailed(outcomes) ==
    LET ok == SelectSeq(outcomes, LAMBDA o : o.ok)
    IN  [i \in DOMAIN ok |-> ok[i].list]

\* _aretrieve, lines 59-65: an exception of the gather becomes an empty list
ProcessedResults(outcomes) ==
    [i \in DOMAIN outcomes |-> IF outcomes[i].ok THEN outcomes[i].list ELSE <<>>]

\* _retrieve, lines 80-91: the try/except around each sub-retriever
SyncResults(outcomes) ==
    [i \in DOMAIN outcomes |-> IF ~outcomes[i].ok THEN <<>> ELSE outcomes[i].list]

FusionIdle ==
    /\ fPc = "new"
    /\ fVia = "none"
    /\ fRetrievers = 0
    /\ fWeightsArg = NoWeights
    /\ fWeights = <<>>
    /\ fTopK = DefaultTopK
    /\ fMode = "none"
    /\ fOutcomes = <<>>
    /\ fOut = <<>>
    /\ fQueryResults = <<>>

\* __init__, lines 29-39, called with n sub-retrievers and the weights passed;
\* arg is the weights argument the caller wrote
Construct(n, passed, top_k, via, arg) ==
    LET weights == IF passed.given /\ passed.list # <<>>
                   THEN passed.list
                   ELSE [i \in 1..n |-> WeightOne]
    IN  /\ fVia' = via
        /\ fWeightsArg' = arg
        /\ fRetrievers' = n
        /\ fTopK' = top_k
        /\ IF Len(weights) # n
           THEN fPc' = "raised" /\ fWeights' = <<>>
           ELSE fPc' = "built" /\ fWeights' = weights
        /\ UNCHANGED <<fMode, fOutcomes, fOut, fQueryResults, engineVars, mergeVars, indexVars, otherVars>>

\* EnhancedHybridRetriever(retrievers, weights, top_k=...)
FusionConstruct ==
    /\ fPc = "new"
    /\ \E n \in RetrieverCounts, w \in WeightArgs, top_k \in TopKs :
           Construct(n, w, top_k, "direct", w)

\* get_retriever_for_collection, lines 65-98: the sub-retrievers and the weights
\* it hands to the constructor; a ValueError of the constructor leaves as
\* RetrievalError
FactoryBuild ==
    /\ fPc = "new"
    /\ \E use_bm25 \in BOOLEAN, bm25_ok \in BOOLEAN, w \in WeightArgs :
        LET n == IF use_bm25 /\ bm25_ok THEN 2 ELSE 1
            passed == IF use_bm25
                      THEN IF bm25_ok
                           THEN IF ~w.given
                                THEN [given |-> TRUE, list |-> FactoryWeights]
                                ELSE w
                           ELSE [given |-> TRUE, list |-> <<WeightOne>>]
                      ELSE [given |-> TRUE, list |-> <<WeightOne>>]
        IN  Construct(n, passed, DefaultTopK, "factory", w)

\* _aretrieve
ARetrieve ==
    /\ fPc = "built"
    /\ fMode' = "async"
    /\ fPc' = "done"
    /\ IF fRetrievers = 0
       THEN fOutcomes' = <<>> /\ fOut' = <<>>
       ELSE \E outs \in [1..fRetrievers -> Outcomes] :
               /\ fOutcomes' = outs
               /\ fOut' = Take(FuseResults(ProcessedResults(outs), fWeights), fTopK)
    /\ UNCHANGED <<fVia, fRetrievers, fWeightsArg, fWeights, fTopK, fQueryResults,
                   engineVars, mergeVars, indexVars, otherVars>>

\* _retrieve
Retrieve ==
    /\ fPc = "built"
    /\ fMode' = "sync"
    /\ fPc' = "done"
    /\ IF fRetrievers = 0
       THEN fOutcomes' = <<>> /\ fOut' = <<>>
       ELSE \E outs \in [1..fRetrievers -> Outcomes] :
               /\ fOutcomes' = outs
               /\ fOut' = Take(FuseResults(SyncResults(outs), fWeights), fTopK)
    /\ UNCHANGED <<fVia, fRetrievers, fWeightsArg, fWeights, fTopK, fQueryResults,
                   engineVars, mergeVars, indexVars, otherVars>>

\* lines 241-247: 'ranker_1' in contribs, the key of the second sub-retriever
\* (BM25); the tag is "hybrid" or "vector"
SourceTypeOf(contribs) == IF 1 \in DOMAIN contribs THEN "hybrid" ELSE "vector"

\* _query_single_collection_interface, lines 227-258: the engine has awaited
\* aretrieve of the retriever the factory built and makes a QueryResult of
\* every fused node
ToQueryResults ==
    /\ fPc = "done"
    /\ fVia = "factory"
    /\ fMode = "async"
    /\ fPc' = "converted"
    /\ fQueryResults' =
          [i \in DOMAIN fOut |->
              [key |-> fOut[i].key,
               relevance_score |-> fOut[i].score,
               source_type |-> SourceTypeOf(fOut[i].retriever_contributions)]]
    /\ UNCHANGED <<fVia, fRetrievers, fWeightsArg, fWeights, fTopK, fMode, fOutcomes, fOut,
                   engineVars, mergeVars, indexVars, otherVars>>

FusionNext == FusionConstruct \/ FactoryBuild \/ ARetrieve \/ Retrieve \/ ToQueryResults

----------------------------------------------------------------------------
(* BM25IndexManager: the lexical index of one collection and its file.     *)
(* A chunk is a record [id, text]; bm25_index records the texts of the     *)
(* corpus BM25Okapi was built from.                                        *)

IndexIds == {"c1", "c2"}
IndexTexts == {"t1", "t2"}
Blank == " "                         \* a document whose text.strip() is empty
NoDocument == "<None>"               \* the store holds no document for the id

NoIndex == [built |-> FALSE, corpus |-> <<>>]             \* bm25_index is None

EmptyMap == [x \in {} |-> 0]

NoFile == [kind |-> "absent", bm25_index |-> NoIndex, nodes |-> <<>>, node_id_map |-> EmptyMap]

\* a file pickle.load cannot read: cut short or damaged
CorruptFile == [kind |-> "corrupt", bm25_index |-> NoIndex, nodes |-> <<>>,
                node_id_map |-> EmptyMap]

\* a file pickle.load reads and that lacks a key: load assigns 'bm25_index',
\* 'nodes', 'node_id_map' in this order and stops at the first key that is missing
PartialKinds == {"lacks_bm25_index", "lacks_nodes", "lacks_node_id_map"}

\* the lists add_nodes receives
ChunkLists ==
    UNION { [1..n -> [id : IndexIds, text : IndexTexts]] : n \in 0..MaxChunks }

\* what chroma_collection.get answers: it raises, it answers without 'ids',
\* or it lists entries with distinct ids, a text, a blank text or no document
ChromaAnswers ==
    { [kind |-> "raises", entries |-> <<>>], [kind |-> "no_ids", entries |-> <<>>] } \cup
    { [kind |-> "ok", entries |-> l] :
        l \in { e \in UNION { [1..n -> [id : IndexIds,
                                       text : IndexTexts \cup {Blank, NoDocument}]] :
                              n \in 0..MaxChunks } :
                  \A a, b \in DOMAIN e : e[a].id = e[b].id => a = b } }

\* how save ends: written, open failed (file untouched), dump failed (file cut short)
SaveOutcomes == {"ok", "open_failed", "dump_failed"}

\* corpus_tokens = [_tokenize_text(node.text) for node in self.nodes]; BM25Okapi(...)
BM25Okapi(ns) == [built |-> TRUE, corpus |-> [i \in DOMAIN ns |-> ns[i].text]]

\* BM25Okapi divides by the corpus size: an empty corpus raises ZeroDivisionError
BuildRaises(ns) == ns = <<>>

\* add_nodes with an append for every chunk
UpsertNodeAppendAlways(ns, map, node) ==
    [nodes |-> Append(ns, node),
     node_id_map |-> [x \in DOMAIN map \cup {node.id} |->
                         IF x = node.id THEN Len(ns) ELSE map[x]]]

\* add_nodes with the position counted from one
UpsertNodeOffByOne(ns, map, node) ==
    IF node.id \notin DOMAIN map
    THEN [nodes |-> Append(ns, node),
          node_id_map |-> [x \in DOMAIN map \cup {node.id} |->
                              IF x = node.id THEN Len(ns) + 1 ELSE map[x]]]
    ELSE [nodes |-> [ns EXCEPT ![map[node.id] + 1] = node], node_id_map |-> map]

\* lines 102-108: append and map the new position, or replace in place
UpsertNode(ns, map, node) ==
    IF node.id \notin DOMAIN map
    THEN [nodes |-> Append(ns, node),
          node_id_map |-> [x \in DOMAIN map \cup {node.id} |->
                              IF x = node.id THEN (Len(ns) + 1) - 1 ELSE map[x]]]
    ELSE [nodes |-> [ns EXCEPT ![map[node.id] + 1] = node], node_id_map |-> map]

RECURSIVE UpsertLoop(_, _, _)
\* for node in new_nodes
UpsertLoop(new_nodes, ns, map) ==
    IF new_nodes = <<>> THEN [nodes |-> ns, node_id_map |-> map]
    ELSE LET step == UpsertNode(ns, map, Head(new_nodes))
         IN  UpsertLoop(Tail(new_nodes), step.nodes, step.node_id_map)

RECURSIVE RebuildLoop(_, _, _)
\* lines 139-157: the entries of the store in order; an entry without document
\* raises at text.strip(), a blank one is skipped
RebuildLoop(entries, ns, map) ==
    IF entries = <<>> THEN [nodes |-> ns, node_id_map |-> map, raised |-> FALSE]
    ELSE IF Head(entries).text = NoDocument
         THEN [nodes |-> ns, node_id_map |-> map, raised |-> TRUE]
    ELSE IF Head(entries).text = Blank
         THEN RebuildLoop(Tail(entries), ns, map)
    ELSE RebuildLoop(Tail(entries),
                     Append(ns, [id |-> Head(entries).id, text |-> Head(entries).text]),
                     [x \in DOMAIN map \cup {Head(entries).id} |->
                         IF x = Head(entries).id THEN (Len(ns) + 1) - 1 ELSE map[x]])

\* the manager's memory after load(): the file's content, or the memory as it
\* was when the file is absent or pickle.load raises
Loaded(file, mem) ==
    CASE file.kind = "blob" ->
            [bm25_index |-> file.bm25_index, nodes |-> file.nodes,
             node_id_map |-> file.node_id_map]
      [] file.kind = "lacks_node_id_map" ->
            [bm25_index |-> file.bm25_index, nodes |-> file.nodes,
             node_id_map |-> mem.node_id_map]
      [] file.kind = "lacks_nodes" ->
            [bm25_index |-> file.bm25_index, nodes |-> mem.nodes,
             node_id_map |-> mem.node_id_map]
      [] OTHER -> mem

\* the file after save() of this memory
Saved(file, mem, outcome) ==
    CASE outcome = "ok" -> [kind |-> "blob", bm25_index |-> mem.bm25_index,
                            nodes |-> mem.nodes, node_id_map |-> mem.node_id_map]
      [] outcome = "open_failed" -> file
      [] outcome = "dump_failed" -> CorruptFile

Memory == [bm25_index |-> bm25_index, nodes |-> nodes, node_id_map |-> node_id_map]

IndexIdle ==
    /\ bm25_index = NoIndex
    /\ nodes = <<>>
    /\ node_id_map = EmptyMap
    /\ index_file = NoFile
    /\ iOp = "none"
    /\ iArg = <<>>
    /\ iRaised = FALSE

\* BM25IndexManager(collection_name): a new manager for the same file
NewManager ==
    /\ iOp # "new"
    /\ bm25_index' = NoIndex
    /\ nodes' = <<>>
    /\ node_id_map' = EmptyMap
    /\ iOp' = "new"
    /\ iArg' = <<>>
    /\ iRaised' = FALSE
    /\ UNCHANGED <<index_file, engineVars, mergeVars, fusionVars, otherVars>>

\* load
Load ==
    /\ LET mem == Loaded(index_file, Memory)
       IN  /\ bm25_index' = mem.bm25_index
           /\ nodes' = mem.nodes
           /\ node_id_map' = mem.node_id_map
    /\ iOp' = "load"
    /\ iArg' = <<>>
    /\ iRaised' = FALSE
    /\ UNCHANGED <<index_file, engineVars, mergeVars, fusionVars, otherVars>>

\* add_nodes
AddNodes ==
    /\ \E new_nodes \in ChunkLists, outcome \in SaveOutcomes :
        /\ iArg' = new_nodes
        /\ IF new_nodes = <<>>
           THEN /\ iRaised' = FALSE
                /\ UNCHANGED <<bm25_index, nodes, node_id_map, index_file>>
           ELSE LET mem == IF ~bm25_index.built /\ index_file.kind # "absent"
                           THEN Loaded(index_file, Memory)
                           ELSE Memory
                    up == UpsertLoop(new_nodes, mem.nodes, mem.node_id_map)
                    after == [bm25_index |-> BM25Okapi(up.nodes), nodes |-> up.nodes,
                              node_id_map |-> up.node_id_map]
                IN  /\ nodes' = after.nodes
                    /\ node_id_map' = after.node_id_map
                    /\ bm25_index' = after.bm25_index
                    /\ index_file' = Saved(index_file, after, outcome)
                    /\ iRaised' = FALSE
    /\ iOp' = "add"
    /\ UNCHANGED <<engineVars, mergeVars, fusionVars, otherVars>>

\* update_with_chroma_results
UpdateWithChromaResults ==
    /\ \E got \in ChromaAnswers, outcome \in SaveOutcomes :
        /\ iArg' = got.entries
        /\ iOp' = IF got.kind = "no_ids" THEN "update_no_ids" ELSE "update"
        /\ IF got.kind = "raises"
           THEN /\ iRaised' = TRUE
                /\ UNCHANGED <<bm25_index, nodes, node_id_map, index_file>>
           ELSE IF got.kind = "no_ids"
           THEN /\ iRaised' = FALSE
                /\ UNCHANGED <<bm25_index, nodes, node_id_map, index_file>>
           ELSE LET loop == RebuildLoop(got.entries, <<>>, EmptyMap)
                IN  /\ nodes' = loop.nodes
                    /\ node_id_map' = loop.node_id_map
                    /\ IF loop.raised \/ BuildRaises(loop.nodes)
                       THEN /\ iRaised' = TRUE
                            /\ UNCHANGED <<bm25_index, index_file>>
                       ELSE /\ iRaised' = FALSE
                            /\ bm25_index' = BM25Okapi(loop.nodes)
                            /\ index_file' =
                                  Saved(index_file,
                                        [bm25_index |-> BM25Okapi(loop.nodes),
                                         nodes |-> loop.nodes,
                                         node_id_map |-> loop.node_id_map], outcome)
    /\ UNCHANGED <<engineVars, mergeVars, fusionVars, otherVars>>

IndexNext == NewManager \/ Load \/ AddNodes \/ UpdateWithChromaResults

\* the files load can find at index_path: a blob of a one-chunk index, the same
\* content under a dictionary that lacks a key, a file that cannot be read, no file
FoundFiles ==
    {NoFile, CorruptFile} \cup
    { [kind |-> k, bm25_index |-> BM25Okapi(<<n>>), nodes |-> <<n>>,
       node_id_map |-> [x \in {n.id} |-> 0]] :
        k \in PartialKinds \cup {"blob"}, n \in [id : IndexIds, text : IndexTexts] }

\* index_path holds another file when the next manager looks at it
FileFound ==
    /\ index_file' \in FoundFiles \ {index_file}
    /\ UNCHANGED <<bm25_index, nodes, node_id_map, iOp, iArg, iRaised>>
    /\ UNCHANGED <<engineVars, mergeVars, fusionVars, otherVars>>

LoadNext == NewManager \/ Load \/ FileFound

----------------------------------------------------------------------------
(* One manager that writes the index file while requests load it *)

\* a manager as __init__ leaves it
FreshMemory == [bm25_index |-> NoIndex, nodes |-> <<>>, node_id_map |-> EmptyMap]

\* no load has run yet
NoRead == [loaded |-> FALSE, index |-> FreshMemory]

\* the single-chunk lists the writer adds and the one-entry stores it rebuilds from
WriterChunks == [id : IndexIds, text : IndexTexts]

RaceIdle ==
    /\ wPc = "idle"
    /\ wPrev = NoFile
    /\ rIndex = NoRead

\* add_nodes([node]) up to and including open(index_path, "wb") of save: the
\* memory is mutated and the scoring structure rebuilt, then open truncates the
\* file, or fails and leaves it as it was
WriterAddOpens ==
    /\ wPc = "idle"
    /\ \E node \in WriterChunks, opened \in BOOLEAN :
        LET mem == IF ~bm25_index.built /\ index_file.kind # "absent"
                   THEN Loaded(index_file, Memory)
                   ELSE Memory
            up == UpsertLoop(<<node>>, mem.nodes, mem.node_id_map)
        IN  /\ nodes' = up.nodes
            /\ node_id_map' = up.node_id_map
            /\ bm25_index' = BM25Okapi(up.nodes)
            /\ iArg' = <<node>>
            /\ wPrev' = index_file
            /\ IF opened
               THEN /\ wPc' = "opened"
                    /\ index_file' = CorruptFile
               ELSE /\ wPc' = "idle"
                    /\ UNCHANGED index_file
    /\ iOp' = "add"
    /\ iRaised' = FALSE
    /\ UNCHANGED <<rIndex, engineVars, mergeVars, fusionVars, tokVars, blendVars, relVars, ingestVars>>

\* update_with_chroma_results on a store of one entry, up to and including the
\* open of save
WriterRebuildOpens ==
    /\ wPc = "idle"
    /\ \E node \in WriterChunks, opened \in BOOLEAN :
        LET loop == RebuildLoop(<<node>>, <<>>, EmptyMap)
        IN  /\ nodes' = loop.nodes
            /\ node_id_map' = loop.node_id_map
            /\ bm25_index' = BM25Okapi(loop.nodes)
            /\ iArg' = <<node>>
            /\ wPrev' = index_file
            /\ IF opened
               THEN /\ wPc' = "opened"
                    /\ index_file' = CorruptFile
               ELSE /\ wPc' = "idle"
                    /\ UNCHANGED index_file
    /\ iOp' = "update"
    /\ iRaised' = FALSE
    /\ UNCHANGED <<rIndex, engineVars, mergeVars, fusionVars, tokVars, blendVars, relVars, ingestVars>>

\* pickle.dump(data, f) of save: the file holds the memory, or stays cut short
\* when the dump fails
WriterDumps ==
    /\ wPc = "opened"
    /\ \E dumped \in BOOLEAN :
        index_file' = IF dumped
                      THEN [kind |-> "blob", bm25_index |-> bm25_index, nodes |-> nodes,
                            node_id_map |-> node_id_map]
                      ELSE CorruptFile
    /\ wPc' = "idle"
    /\ UNCHANGED <<bm25_index, nodes, node_id_map, iOp, iArg, iRaised, wPrev, rIndex>>
    /\ UNCHANGED <<engineVars, mergeVars, fusionVars, tokVars, blendVars, relVars, ingestVars>>

\* a request: BM25IndexManager(collection_name) and load() on the same file
ReaderLoads ==
    /\ rIndex' = [loaded |-> TRUE, index |-> Loaded(index_file, FreshMemory)]
    /\ UNCHANGED <<indexVars, wPc, wPrev, engineVars, mergeVars, fusionVars, tokVars,
                   blendVars, relVars, ingestVars>>

RaceNext == WriterAddOpens \/ WriterRebuildOpens \/ WriterDumps \/ ReaderLoads

----------------------------------------------------------------------------
(* _tokenize_text *)

MaxTextLen == 4      \* length of the text handed to _tokenize_text

Sigil == "§"
Whitespace == {" "}
Digits == {"0", "2"}
Letters == {"a", "A"}
\* what \w matches
WordChars == Digits \cup Letters
Alphabet == {Sigil} \cup Whitespace \cup WordChars

Texts == UNION { [1..n -> Alphabet] : n \in 0..MaxTextLen }

\* text.lower()
Lower(text) == [i \in DOMAIN text |-> IF text[i] = "A" THEN "a" ELSE text[i]]

RECURSIVE RunLen(_, _, _)
\* the length of the longest run of characters of class S that starts at i:
\* what \s+, \d+ and [\w]+ consume there
RunLen(text, i, S) ==
    IF i > Len(text) \/ text[i] \notin S THEN 0 ELSE 1 + RunLen(text, i + 1, S)

RECURSIVE SubFrom(_, _)
\* re.sub(r'§\s+(\d+)', r'§\1', text) from position i on
SubFrom(text, i) ==
    IF i > Len(text) THEN <<>>
    ELSE IF text[i] = Sigil
    THEN LET w == RunLen(text, i + 1, Whitespace)
             d == RunLen(text, i + 1 + w, Digits)
         IN  IF w >= 1 /\ d >= 1
             THEN <<Sigil>> \o SubSeq(text, i + 1 + w, i + w + d)
                            \o SubFrom(text, i + 1 + w + d)
             ELSE <<Sigil>> \o SubFrom(text, i + 1)
    ELSE <<text[i]>> \o SubFrom(text, i + 1)

\* the text with no substitution
JoinSigilNever(text) == text

\* line 30
JoinSigil(text) == SubFrom(text, 1)

RECURSIVE FindAllFrom(_, _)
\* re.findall(r'§\d+|[\w]+', text) from position i on
FindAllFrom(text, i) ==
    IF i > Len(text) THEN <<>>
    ELSE IF text[i] = Sigil /\ RunLen(text, i + 1, Digits) >= 1
    THEN LET d == RunLen(text, i + 1, Digits)
         IN  <<SubSeq(text, i, i + d)>> \o FindAllFrom(text, i + d + 1)
    ELSE IF text[i] \in WordChars
    THEN LET n == RunLen(text, i, WordChars)
         IN  <<SubSeq(text, i, i + n - 1)>> \o FindAllFrom(text, i + n)
    ELSE FindAllFrom(text, i + 1)

\* line 34
FindAll(text) == FindAllFrom(text, 1)

\* str.isdigit() on the strings of this alphabet
IsDigit(token) == token # <<>> /\ \A i \in DOMAIN token : token[i] \in Digits

RECURSIVE DigitTokens(_, _)
\* lines 47-49: for digit in token: append it if digit != '0' or len(token) == 1
DigitTokens(token, i) ==
    IF i > Len(token) THEN <<>>
    ELSE IF token[i] # "0" \/ Len(token) = 1
    THEN <<SubSeq(token, i, i)>> \o DigitTokens(token, i + 1)
    ELSE DigitTokens(token, i + 1)

\* the loop body with the digits of every numeric token, one-digit tokens included
TokensOfEveryNumber(token) ==
    IF Head(token) = Sigil
    THEN IF IsDigit(Tail(token)) THEN <<token, Tail(token)>> ELSE <<token>>
    ELSE IF IsDigit(token)
    THEN <<token>> \o DigitTokens(token, 1)
    ELSE <<token>>

\* lines 37-49: what one raw token appends
TokensOf(token) ==
    IF Head(token) = Sigil
    THEN IF IsDigit(Tail(token)) THEN <<token, Tail(token)>> ELSE <<token>>
    ELSE IF IsDigit(token) /\ Len(token) > 1
    THEN <<token>> \o DigitTokens(token, 1)
    ELSE <<token>>

RECURSIVE TokensOfAll(_)
\* for token in raw_tokens
TokensOfAll(raw_tokens) ==
    IF raw_tokens = <<>> THEN <<>>
    ELSE TokensOf(Head(raw_tokens)) \o TokensOfAll(Tail(raw_tokens))

\* _tokenize_text
TokenizeText(text) == TokensOfAll(FindAll(JoinSigil(Lower(text))))

TokIdle ==
    /\ tPc = "idle"
    /\ tText = <<>>
    /\ tTokens = <<>>

\* tokens = _tokenize_text(text)
Tokenize ==
    /\ tPc = "in"
    /\ tTokens' = TokenizeText(tText)
    /\ tPc' = "out"
    /\ UNCHANGED tText
    /\ UNCHANGED <<engineVars, mergeVars, fusionVars, indexVars, raceVars, blendVars, relVars, ingestVars>>

TokNext == Tokenize

----------------------------------------------------------------------------
(* the score blend of search_documents *)

MaxCandidates == 3   \* number of candidates of the collection

\* vector_score = 1.0 - distance and bm25_score, in halves; a candidate that
\* only one search found has 0.0 for the other score
VectorScores == {-1, 0, 1, 2}
Bm25Scores == {0, 1, 3}

CombinedResults ==
    UNION { [1..n -> [vector_score : VectorScores, bm25_score : Bm25Scores]] :
            n \in 0..MaxCandidates }

\* max(scores), min(scores)
MaxOf(scores) == CHOOSE x \in scores : \A y \in scores : y <= x

MinOf(scores) == CHOOSE x \in scores : \A y \in scores : x <= y

\* a constant list normalised to 1.0 whatever the score
NormalizedConstantOne(score, lo, hi) ==
    IF hi > lo
    THEN [num |-> score - lo, den |-> hi - lo]
    ELSE [num |-> 1, den |-> 1]

\* lines 295-298 and 301-304: the normalised score as the fraction num / den
Normalized(score, lo, hi) ==
    IF hi > lo
    THEN [num |-> score - lo, den |-> hi - lo]
    ELSE [num |-> IF score > 0 THEN 1 ELSE 0, den |-> 1]

\* line 307: (0.5 * norm_vector) + (0.5 * norm_bm25)
HybridScore(norm_vector, norm_bm25) ==
    [num |-> norm_vector.num * norm_bm25.den + norm_bm25.num * norm_vector.den,
     den |-> 2 * norm_vector.den * norm_bm25.den]

BlendIdle ==
    /\ bPc = "idle"
    /\ combined_results = <<>>
    /\ bScores = <<>>

\* lines 284-311: relevance_score of every candidate of the collection
Blend ==
    /\ bPc = "in"
    /\ bPc' = "out"
    /\ IF combined_results # <<>>
       THEN LET vector_scores == { combined_results[i].vector_score :
                                     i \in DOMAIN combined_results }
                bm25_scores == { combined_results[i].bm25_score :
                                   i \in DOMAIN combined_results }
                max_vector == MaxOf(vector_scores)
                min_vector == MinOf(vector_scores)
                max_bm25 == MaxOf(bm25_scores)
                min_bm25 == MinOf(bm25_scores)
            IN  bScores' = [i \in DOMAIN combined_results |->
                              HybridScore(
                                Normalized(combined_results[i].vector_score,
                                           min_vector, max_vector),
                                Normalized(combined_results[i].bm25_score,
                                           min_bm25, max_bm25))]
       ELSE bScores' = <<>>
    /\ UNCHANGED combined_results
    /\ UNCHANGED <<engineVars, mergeVars, fusionVars, indexVars, raceVars, tokVars, relVars, ingestVars>>

BlendNext == Blend

----------------------------------------------------------------------------
(* the relevance of the vector-only path *)

MaxHits == 3         \* number of results collection.query returns

RelOne == 2          \* the 1 of `1 - distance`: distances and scores are in halves

\* the distances the store reports: 0 for the query's own vector, up to 1.0,
\* above 1.0 (cosine up to 2.0, L2 without limit), and below 0 (inner-product
\* space: 1 - dot product)
Distances == {-1, 0, 1, 2, 3}

\* min_relevance of the call, within the documented 0.0-1.0
RelMinRelevances == {0, 1, 2}

DistanceLists == UNION { [1..n -> Distances] : n \in 0..MaxHits }

\* relevance = 1 - distance
RelevanceOf(distance) == RelOne - distance

RelIdle ==
    /\ dPc = "idle"
    /\ distances = <<>>
    /\ dMinRelevance = 0
    /\ dResults = <<>>

\* lines 328-348: one QueryResult per distance, then the relevance filter
FallbackResults ==
    /\ dPc = "in"
    /\ dPc' = "out"
    /\ LET query_results == [i \in DOMAIN distances |->
                               QueryResult("d", RelevanceOf(distances[i]), "A",
                                           "vector", "x")]
       IN  dResults' = FilterByRelevance(query_results, dMinRelevance)
    /\ UNCHANGED <<distances, dMinRelevance>>
    /\ UNCHANGED <<engineVars, mergeVars, fusionVars, indexVars, raceVars, tokVars, blendVars,
                   ingestVars>>

RelNext == FallbackResults


----------------------------------------------------------------------------
(* process_document_pipeline: the try block, its except and its finally *)

EmptyText == ""          \* `not text_content` holds
Spaces == "  "           \* not empty; _clean_text makes it empty
SomeText == "text"

PipeTexts == {EmptyText, Spaces, SomeText}

\* the file at file_path when the pipeline is called
PipeInputs == [on_disk : BOOLEAN, text : PipeTexts]

NoParams == [requires_validation |-> FALSE, preprocessing_steps |-> {}]

\* a cleanup that only the normal end of the try block reaches
ExistsAfterCleanupOnSuccess(exists, pending) ==
    IF pending = "results" THEN FALSE ELSE exists

\* finally: if os.path.exists(file_path): os.remove(file_path); whether the
\* file exists afterwards. The finally clause runs however the try block ended.
ExistsAfterCleanup(exists, pending) == IF exists THEN FALSE ELSE exists

PipeIdle ==
    /\ pPc = "idle"
    /\ pIn = [on_disk |-> FALSE, text |-> EmptyText]
    /\ pFile = FALSE
    /\ pParams = NoParams
    /\ pPending = "none"
    /\ pExit = "none"

\* lines 27-44: the classifier, the router and the routing decision; what is
\* awaited here may raise
RouteDocument ==
    /\ pPc = "start"
    /\ \E ok \in BOOLEAN, requires_validation \in BOOLEAN,
          steps \in SUBSET {"clean_text", "extract_clauses"} :
          IF ok
          THEN /\ pPc' = "routed"
               /\ pParams' = [requires_validation |-> requires_validation,
                              preprocessing_steps |-> steps]
               /\ UNCHANGED pPending
          ELSE /\ pPc' = "finally"
               /\ pPending' = "raise"
               /\ UNCHANGED pParams
    /\ UNCHANGED <<pIn, pFile, pExit, routeVars, countVars, chunkVars, uploadVars, queryVars>>

\* lines 54-68: os.path.getsize raises when there is no file, open or read may
\* raise; an empty text leaves through the return of line 68
ReadContent ==
    /\ pPc = "routed"
    /\ \E read_ok \in BOOLEAN :
          IF ~pFile \/ ~read_ok
          THEN pPc' = "finally" /\ pPending' = "raise"
          ELSE IF pIn.text = EmptyText
          THEN pPc' = "finally" /\ pPending' = "failed"
          ELSE pPc' = "read" /\ UNCHANGED pPending
    /\ UNCHANGED <<pIn, pFile, pParams, pExit, routeVars, countVars, chunkVars, uploadVars, queryVars>>

\* lines 70-104: pre-processing, chunking, validation; any of them may raise
ProcessContent ==
    /\ pPc = "read"
    /\ \E ok \in BOOLEAN : pPending' = IF ok THEN "results" ELSE "raise"
    /\ pPc' = "finally"
    /\ UNCHANGED <<pIn, pFile, pParams, pExit, routeVars, countVars, chunkVars, uploadVars, queryVars>>

\* lines 106-116: the except clause re-raises, the finally clause removes the
\* file, and the call ends as the try block was left
Cleanup ==
    /\ pPc = "finally"
    /\ pFile' = ExistsAfterCleanup(pFile, pPending)
    /\ pPc' = "exit"
    /\ pExit' = CASE pPending = "results" -> "returned"
                  [] pPending = "failed" -> "failed"
                  [] OTHER -> "raised"
    /\ UNCHANGED <<pIn, pParams, pPending, routeVars, countVars, chunkVars, uploadVars, queryVars>>

PipeNext == RouteDocument \/ ReadContent \/ ProcessContent \/ Cleanup

----------------------------------------------------------------------------
(* DocumentRouterService._make_routing_decision.                            *)
(* A dict is a function from its keys; confidences are in tenths.          *)

MaxRules == 2            \* number of rules in routing_rules

DefaultChunkSize == 512      \* action.get("chunk_size", 512)
DefaultChunkOverlap == 128   \* action.get("chunk_overlap", 128)

None == "<None>"

\* d.get(key, default)
Get(d, key, default) == IF key \in DOMAIN d THEN d[key] ELSE default

\* rule["condition"]: the category asked for (None when the key is missing)
\* and the dict under "confidence", with or without a ">=" threshold
Conditions == [category : {None, "legal_documents"},
               confidence : {EmptyMap, [x \in {">="} |-> 7]}]

\* rule["action"]: every key may be missing
RuleActions ==
    { EmptyMap,
      [target_collection |-> "contracts", chunk_size |-> 1024, requires_validation |-> TRUE],
      [chunk_size |-> 100] }

Rules == [condition : Conditions, action : RuleActions]

RuleLists == UNION { [1..n -> Rules] : n \in 0..MaxRules }

\* routing_rules["defaults"]
RuleDefaults == { EmptyMap, [chunk_size |-> 500] }

\* suggested_chunk_size of the classifier: missing, an int, or a string
SuggestedSizes == { [type |-> "NoneType", val |-> 0], [type |-> "int", val |-> 1234],
                    [type |-> "str", val |-> 1234] }

Classifications == [recommended_collection : {"legal_documents", "generic"},
                    confidence : {5, 7, 9},
                    suggested_chunk_size : SuggestedSizes]

NoDecision == [rule_matched |-> FALSE, document_type |-> None, confidence |-> 0,
               target_collection |-> None, requires_validation |-> FALSE,
               chunk_size |-> 0, chunk_overlap |-> 0]

\* a threshold that the confidence has to exceed
RuleAppliesAbove(rule, category, confidence) ==
    LET req_category == rule.condition.category
        req_conf_dict == rule.condition.confidence
    IN  /\ ~(req_category # None /\ req_category # category)
        /\ ~(">=" \in DOMAIN req_conf_dict /\ confidence <= req_conf_dict[">="])

\* lines 89-102: neither `continue` is taken
RuleApplies(rule, category, confidence) ==
    LET req_category == rule.condition.category
        req_conf_dict == rule.condition.confidence
    IN  /\ ~(req_category # None /\ req_category # category)
        /\ ~(">=" \in DOMAIN req_conf_dict /\ confidence < req_conf_dict[">="])

\* lines 105-122: the decision built from the action of the rule that matched
RuleDecision(action, category, confidence) ==
    [rule_matched |-> TRUE, document_type |-> category, confidence |-> confidence,
     target_collection |-> Get(action, "target_collection", category),
     requires_validation |-> Get(action, "requires_validation", FALSE),
     chunk_size |-> Get(action, "chunk_size", DefaultChunkSize),
     chunk_overlap |-> Get(action, "chunk_overlap", DefaultChunkOverlap)]

\* lines 126-146: no rule matched
DefaultDecision(defaults, classification, category, confidence) ==
    LET llm_chunk_size == classification.suggested_chunk_size
        final_chunk_size == IF llm_chunk_size.type = "int" THEN llm_chunk_size.val
                            ELSE Get(defaults, "chunk_size", DefaultChunkSize)
    IN  [rule_matched |-> FALSE, document_type |-> category, confidence |-> confidence,
         target_collection |-> category,
         requires_validation |-> Get(defaults, "requires_validation", FALSE),
         chunk_size |-> final_chunk_size,
         chunk_overlap |-> Get(defaults, "chunk_overlap", DefaultChunkOverlap)]

RECURSIVE RuleLoop(_, _, _, _)
\* for rule in self.routing_rules.get("rules", [])
RuleLoop(rules, defaults, classification, i) ==
    LET category == classification.recommended_collection
        confidence == classification.confidence
    IN  IF i > Len(rules)
        THEN DefaultDecision(defaults, classification, category, confidence)
        ELSE IF RuleApplies(rules[i], category, confidence)
        THEN RuleDecision(rules[i].action, category, confidence)
        ELSE RuleLoop(rules, defaults, classification, i + 1)

RouteIdle ==
    /\ rtPc = "idle"
    /\ routing_rules = [rules |-> <<>>, defaults |-> EmptyMap]
    /\ classification_result = [recommended_collection |-> "generic", confidence |-> 5,
                                suggested_chunk_size |-> [type |-> "NoneType", val |-> 0]]
    /\ decision = NoDecision

\* _make_routing_decision
MakeRoutingDecision ==
    /\ rtPc = "in"
    /\ rtPc' = "out"
    /\ decision' = RuleLoop(routing_rules.rules, routing_rules.defaults,
                            classification_result, 1)
    /\ UNCHANGED <<routing_rules, classification_result, pipeVars, countVars, chunkVars,
                   uploadVars, queryVars>>

RouteNext == MakeRoutingDecision

----------------------------------------------------------------------------
(* The hybrid path by numbers: how many results a query for one collection *)
(* returns when the collection holds many chunks.                          *)

MaxStored == 12          \* chunks in the collection, and the largest n_results

\* what the fusion makes of a collection of this many chunks when each
\* sub-retriever returns them all: every chunk once, by descending score
FusedOf(stored) ==
    [i \in 1..stored |-> QueryResult(i, (stored - i) + 1, "A", "hybrid", "x")]

\* retriever_factory.py:85-88 and enhanced_hybrid_retriever.py:98: the factory
\* passes no top_k, so the retriever cuts its list at the default
FactoryRetrieverResults(stored) == Take(FusedOf(stored), DefaultTopK)

CountIdle ==
    /\ hPc = "idle"
    /\ hStored = 0
    /\ hCall = [n_results |-> 0, merge_strategy |-> "interleave"]
    /\ hResult = <<>>

\* query for one collection on the hybrid path, min_relevance 0, nothing
\* fails: the retrieval (query_engine.py:220-231, k is not passed on), the
\* relevance filter and the merge
HybridQuery ==
    /\ hPc = "in"
    /\ hPc' = "out"
    /\ LET query_results == FactoryRetrieverResults(hStored)
       IN  hResult' = MergeResults(ReturnFiltered(query_results, 0),
                                   hCall.n_results, hCall.merge_strategy)
    /\ UNCHANGED <<hStored, hCall, pipeVars, routeVars, chunkVars, uploadVars, queryVars>>

CountNext == HybridQuery

----------------------------------------------------------------------------
(* _chunk_text: the chunking loop of the ingestion pipeline.               *)
(* A chunk is the set of zero-based positions of the text that it holds.   *)

MaxDocLen == 3           \* len(text); chunk_size and overlap range up to it too

ClampIndex(i, len) ==
    IF i < 0 THEN (IF i + len < 0 THEN 0 ELSE i + len)
    ELSE IF i > len THEN len ELSE i

\* text[a:b]: a negative index counts from the end, an index past the end is
\* the end
Slice(len, a, b) ==
    { i \in 0..(len - 1) : ClampIndex(a, len) <= i /\ i < ClampIndex(b, len) }

ChunkIdle ==
    /\ cPc = "idle"
    /\ text_length = 0
    /\ chunk_size = 1
    /\ overlap = 0
    /\ start = 0
    /\ chunks = <<>>

\* lines 143-147: an empty text returns [] before the loop
ChunkEnter ==
    /\ cPc = "call"
    /\ cPc' = IF text_length = 0 THEN "returned" ELSE "loop"
    /\ UNCHANGED <<text_length, chunk_size, overlap, start, chunks,
                   pipeVars, routeVars, countVars, uploadVars, queryVars>>

\* lines 148-153: one pass of `while start < text_length`; the model follows
\* the loop for MaxDocLen + 1 passes
ChunkIteration ==
    /\ cPc = "loop"
    /\ Len(chunks) <= MaxDocLen
    /\ LET end == start + chunk_size
           chunk == Slice(text_length, start, end)
           next_start == end - overlap
       IN  /\ chunks' = Append(chunks, chunk)
           /\ start' = next_start
           /\ cPc' = IF next_start >= text_length - overlap /\ end >= text_length
                     THEN "returned"                     \* break
                     ELSE IF next_start < text_length THEN "loop"
                     ELSE "returned"                     \* the while condition fails
    /\ UNCHANGED <<text_length, chunk_size, overlap, pipeVars, routeVars, countVars,
                   uploadVars, queryVars>>

ChunkNext == ChunkEnter \/ ChunkIteration

----------------------------------------------------------------------------
(* upload_documents under `async with UPLOAD_SEMAPHORE`.                    *)
(* The semaphore is asyncio.Semaphore: acquire takes a slot when none is   *)
(* queued before it, else queues; release hands the slot to the oldest     *)
(* queued request that has not been woken yet.                             *)

MaxUploads == 3               \* upload requests in one behaviour
MAX_CONCURRENT_UPLOADS == 2   \* int(os.getenv("MAX_CONCURRENT_UPLOADS", "5"))

Uploads == 1..MaxUploads

\* how a request leaves the section: the return of line 367, the
\* ValidationError re-raised at line 382, the IngestionError of line 385
ExitPaths == {"returned", "validation_error", "ingestion_error"}

\* a section that gives its slot back only when it returns
ExitReleasesOnReturn(exit) == exit = "returned"

\* line 218: __aexit__ of `async with` runs on return and on raise
ExitReleases(exit) == exit \in ExitPaths

\* Semaphore.locked
Locked(value, waiters) == value = 0 \/ waiters # <<>>

\* Semaphore._wake_up_next: the first queued request not woken yet takes a slot
WakeUpNext(value, waiters, pcs) ==
    LET pending == { i \in DOMAIN waiters : pcs[waiters[i]] = "waiting" }
    IN  IF pending = {} THEN [value |-> value, pcs |-> pcs]
        ELSE LET first == CHOOSE i \in pending : \A j \in pending : i <= j
             IN  [value |-> value - 1,
                  pcs |-> [pcs EXCEPT ![waiters[first]] = "woken"]]

\* Semaphore.release
Release(value, waiters, pcs) == WakeUpNext(value + 1, waiters, pcs)

UploadIdle ==
    /\ uPc = [r \in Uploads |-> "idle"]
    /\ uValue = MAX_CONCURRENT_UPLOADS
    /\ uWaiters = <<>>
    /\ uExit = [r \in Uploads |-> "none"]

\* a request reaches `async with UPLOAD_SEMAPHORE`: acquire up to its await
UploadArrives(r) ==
    /\ uPc[r] = "idle"
    /\ IF ~Locked(uValue, uWaiters)
       THEN /\ uValue' = uValue - 1
            /\ uPc' = [uPc EXCEPT ![r] = "inside"]
            /\ UNCHANGED uWaiters
       ELSE /\ uWaiters' = Append(uWaiters, r)
            /\ uPc' = [uPc EXCEPT ![r] = "waiting"]
            /\ UNCHANGED uValue
    /\ UNCHANGED <<uExit, pipeVars, routeVars, countVars, chunkVars, queryVars>>

\* the event loop resumes a woken request: the rest of acquire, and the
\* request is inside the section
UploadResumes(r) ==
    /\ uPc[r] = "woken"
    /\ LET rest == SelectSeq(uWaiters, LAMBDA w : w # r)
           pcs == [uPc EXCEPT ![r] = "inside"]
           woke == IF uValue > 0 THEN WakeUpNext(uValue, rest, pcs)
                   ELSE [value |-> uValue, pcs |-> pcs]
       IN  /\ uWaiters' = rest
           /\ uValue' = woke.value
           /\ uPc' = woke.pcs
    /\ UNCHANGED <<uExit, pipeVars, routeVars, countVars, chunkVars, queryVars>>

\* lines 219-386: the request leaves the section by one of its exit paths
UploadLeaves(r) ==
    /\ uPc[r] = "inside"
    /\ \E exit \in ExitPaths :
        LET pcs == [uPc EXCEPT ![r] = "done"]
            released == IF ExitReleases(exit) THEN Release(uValue, uWaiters, pcs)
                        ELSE [value |-> uValue, pcs |-> pcs]
        IN  /\ uExit' = [uExit EXCEPT ![r] = exit]
            /\ uValue' = released.value
            /\ uPc' = released.pcs
    /\ UNCHANGED <<uWaiters, pipeVars, routeVars, countVars, chunkVars, queryVars>>

UploadNext ==
    \E r \in Uploads : UploadArrives(r) \/ UploadResumes(r) \/ UploadLeaves(r)

IngestIdle == PipeIdle /\ RouteIdle /\ CountIdle /\ ChunkIdle /\ UploadIdle

----------------------------------------------------------------------------
(* QueryEngine.query *)

NoCall == [query_text |-> "q", collection_names |-> <<>>, n_results |-> 0,
           min_relevance |-> 0, merge_strategy |-> "interleave", filters |-> NoFilter]

Pending == [st |-> "pending", res |-> <<>>, raw |-> <<>>, via |-> "none",
            hyb |-> "none", fb |-> "none"]

\* collection_names a caller passes: none (discover), or a list of distinct names
TargetChoices ==
    { <<>>, <<"A">>, <<"A", "B">>, <<"B", "A">>, <<"A", "B", "C">> }

\* what list_collections answers: the names, or "error" when the store is unreachable
Discoveries == { <<>>, <<"A", "B", "C">>, <<"error">> }

Init ==
    /\ chroma_client = FALSE
    /\ embeddings = FALSE
    /\ cache = EmptyCache
    /\ origin = EmptyCache
    /\ pc = "idle"
    /\ call = NoCall
    /\ target = <<>>
    /\ tasks = <<>>
    /\ result = <<>>
    /\ discovered = FALSE
    /\ cacheTouched = FALSE
    /\ calls = 0
    /\ order = <<>>
    /\ mIn = <<>>
    /\ mK = 0
    /\ mStrategy = "interleave"
    /\ mOut = <<>>
    /\ mPc = "idle"
    /\ FusionIdle
    /\ IndexIdle
    /\ RaceIdle
    /\ TokIdle
    /\ BlendIdle
    /\ RelIdle
    /\ IngestIdle

\* set_client, called by the application before it serves queries
SetClient ==
    /\ pc = "idle"
    /\ \E c \in BOOLEAN : chroma_client' = c
    /\ UNCHANGED <<embeddings, cache, origin, pc, call, target, tasks, result,
                   discovered, cacheTouched, calls, order, mergeVars, fusionVars, indexVars, otherVars>>

\* set_embeddings
SetEmbeddings ==
    /\ pc = "idle"
    /\ \E e \in BOOLEAN : embeddings' = e
    /\ UNCHANGED <<chroma_client, cache, origin, pc, call, target, tasks, result,
                   discovered, cacheTouched, calls, order, mergeVars, fusionVars, indexVars, otherVars>>

\* if not self.chroma_client or not self.embeddings
PreconditionFailsClientOnly(client, emb) == ~client

PreconditionFails(client, emb) == ~client \/ ~emb

\* query, lines 124-150: the precondition, the discovery of the collections and
\* the creation of one task per target collection
QueryBegin(names, cfg) ==
    /\ pc \in {"idle", "returned", "raised"}
    /\ call' = [cfg EXCEPT !.collection_names = names]
    /\ calls' = calls + 1
    /\ cacheTouched' = FALSE
    /\ order' = <<>>
    /\ result' = <<>>
    /\ IF PreconditionFails(chroma_client, embeddings)
       THEN /\ pc' = "raised"
            /\ discovered' = FALSE
            /\ target' = <<>>
            /\ tasks' = <<>>
       ELSE IF names = <<>>
       THEN \E found \in Discoveries :
                /\ discovered' = TRUE
                /\ IF found = <<"error">>
                   THEN pc' = "raised" /\ target' = <<>> /\ tasks' = <<>>
                   ELSE /\ target' = found
                        /\ tasks' = [i \in DOMAIN found |-> Pending]
                        /\ pc' = IF found = <<>> THEN "returned" ELSE "fanout"
       ELSE /\ discovered' = FALSE
            /\ target' = names
            /\ tasks' = [i \in DOMAIN names |-> Pending]
            /\ pc' = "fanout"
    /\ UNCHANGED <<chroma_client, embeddings, cache, origin, mergeVars, fusionVars, indexVars, otherVars>>

Configs(ks) ==
    [query_text : QueryTexts, collection_names : {<<>>}, n_results : ks,
     min_relevance : MinRelevances, merge_strategy : Strategies, filters : FilterSets]

\* one task of the fan-out runs _query_single_collection_interface to its end.
\* The tasks of one call have distinct collections, hence distinct cache keys, and
\* share nothing else, so the suspension points inside a task are not modelled:
\* the tasks complete one after the other, in any order.
TaskRun ==
    /\ pc = "fanout"
    /\ \E i \in DOMAIN tasks, scen \in Scenarios :
        /\ tasks[i].st = "pending"
        /\ tasks[i].via # "hung"
        /\ LET out == QuerySingleCollectionInterface(
                          cache, target[i], call.query_text, call.n_results,
                          call.min_relevance, call.filters, scen)
               key == MakeKey(target[i], call.query_text, call.n_results, call.filters)
           IN  /\ tasks' = [tasks EXCEPT ![i] =
                               [st |-> out.st, res |-> out.res, raw |-> out.raw,
                                via |-> out.via, hyb |-> out.hyb, fb |-> out.fb]]
               /\ order' = Append(order, i)
               /\ cache' = out.cache
               /\ origin' = IF out.wrote
                            THEN [x \in DOMAIN origin \cup {key} |->
                                    IF x = key
                                    THEN [filters |-> call.filters,
                                          min_relevance |-> call.min_relevance,
                                          via |-> out.via]
                                    ELSE origin[x]]
                            ELSE origin
    /\ cacheTouched' = TRUE
    /\ UNCHANGED <<chroma_client, embeddings, pc, call, target, result, discovered,
                   calls, mergeVars, fusionVars, indexVars, otherVars>>

\* the results taken in the order in which the tasks completed
OkResultsAsCompleted(ts) ==
    Concat([j \in DOMAIN order |->
              IF order[j] \in DOMAIN ts /\ ts[order[j]].st = "ok"
              THEN ts[order[j]].res ELSE <<>>])

RECURSIVE OkResults(_)
\* the for loop of lines 156-162: the results of the tasks that raised nothing
OkResults(ts) ==
    IF ts = <<>> THEN <<>>
    ELSE (IF Head(ts).st = "ok" THEN Head(ts).res ELSE <<>>) \o OkResults(Tail(ts))

\* a gather that lets the first exception of a task through
GatherRaisesFirst(ts) == \E i \in DOMAIN ts : ts[i].st = "exc"

\* asyncio.gather(*tasks, return_exceptions=True): raises nothing
GatherRaises(ts) == FALSE

\* a barrier that opens as soon as one task has terminated
BarrierAnyDone(ts) == \E i \in DOMAIN ts : ts[i].st # "pending"

\* await asyncio.gather(*tasks, ...): resumes when every task has terminated
BarrierPassed(ts) == \A i \in DOMAIN ts : ts[i].st # "pending"

\* query, lines 153-164: the barrier, the collection of the results and the merge
QueryFinish ==
    /\ pc = "fanout"
    /\ BarrierPassed(tasks)
    /\ IF GatherRaises(tasks)
       THEN pc' = "raised" /\ result' = <<>>
       ELSE /\ pc' = "returned"
            /\ result' = MergeResults(OkResults(tasks), call.n_results, call.merge_strategy)
    /\ UNCHANGED <<chroma_client, embeddings, cache, origin, call, target, tasks,
                   discovered, cacheTouched, calls, order, mergeVars, fusionVars, indexVars, otherVars>>

\* one call of query on a newly constructed engine (the cache is empty), over any
\* of the target lists; sequences of calls that share the cache are in CacheSpec
QueryCall ==
    /\ calls = 0
    /\ \E names \in TargetChoices, cfg \in Configs(0..MaxK) : QueryBegin(names, cfg)

Next == SetClient \/ SetEmbeddings \/ QueryCall \/ TaskRun \/ QueryFinish

Spec == Init /\ [][Next]_vars

\* a fusion retriever is constructed and asked once
FusionSpec == Init /\ [][FusionNext]_vars

\* managers of one collection's lexical index, one after the other
IndexSpec == Init /\ [][IndexNext]_vars

\* load on the files it can find
LoadSpec == Init /\ [][LoadNext]_vars

\* a writer and the requests that load its file
RaceSpec == Init /\ [][RaceNext]_vars

----------------------------------------------------------------------------
(* A sequence of query calls for one collection, sharing the query cache *)

\* a call for collection A; the cache key then varies in k and in the filters
QueryCallA ==
    /\ calls < MaxCalls
    /\ chroma_client /\ embeddings
    /\ \E cfg \in Configs(0..MaxK) : QueryBegin(<<"A">>, cfg)

\* the cache drops an entry (TTL or capacity)
CacheEvict ==
    /\ pc # "fanout"
    /\ \E key \in DOMAIN cache :
        /\ cache' = [x \in DOMAIN cache \ {key} |-> cache[x]]
        /\ origin' = [x \in DOMAIN origin \ {key} |-> origin[x]]
    /\ UNCHANGED <<chroma_client, embeddings, pc, call, target, tasks, result,
                   discovered, cacheTouched, calls, order, mergeVars, fusionVars, indexVars, otherVars>>

CacheNext == SetClient \/ SetEmbeddings \/ QueryCallA \/ TaskRun \/ QueryFinish \/ CacheEvict

CacheSpec == Init /\ [][CacheNext]_vars

----------------------------------------------------------------------------
(* A call one of whose retrievals may never complete *)

\* the await of a task (retriever.aretrieve, line 231, or the fallback's store
\* query) is never resumed: the task stays pending for ever. Neither query nor
\* _query_single_collection_interface bounds the wait.
TaskHang ==
    /\ pc = "fanout"
    /\ \E i \in DOMAIN tasks :
        /\ tasks[i].st = "pending"
        /\ tasks[i].via # "hung"
        /\ tasks' = [tasks EXCEPT ![i].via = "hung"]
    /\ UNCHANGED <<chroma_client, embeddings, cache, origin, pc, call, target, result,
                   discovered, cacheTouched, calls, order, mergeVars, fusionVars, indexVars, otherVars>>

\* a call over two collections on an engine that is set up
QueryCallAB ==
    /\ calls = 0
    /\ chroma_client /\ embeddings
    /\ \E cfg \in Configs(0..MaxK) : QueryBegin(<<"A", "B">>, cfg)

HangNext == SetClient \/ SetEmbeddings \/ QueryCallAB \/ TaskRun \/ TaskHang \/ QueryFinish

HangSpec == Init /\ [][HangNext]_vars

----------------------------------------------------------------------------
(* _merge_results applied to every short list of results *)

MergeCollections == {"A", "B", "C"}
MergeScores == {0, 1}

\* lists of at most MaxMergeLen results; content is the position in the list
MergeInputs ==
    UNION { { [i \in 1..n |-> QueryResult(i, f[i][2], f[i][1], "hybrid", "x")] :
                f \in [1..n -> MergeCollections \X MergeScores] } : n \in 0..MaxMergeLen }

MergeInit ==
    /\ chroma_client = FALSE
    /\ embeddings = FALSE
    /\ cache = EmptyCache
    /\ origin = EmptyCache
    /\ pc = "idle"
    /\ call = NoCall
    /\ target = <<>>
    /\ tasks = <<>>
    /\ result = <<>>
    /\ discovered = FALSE
    /\ cacheTouched = FALSE
    /\ calls = 0
    /\ order = <<>>
    /\ mIn \in MergeInputs
    /\ mK = 0
    /\ mStrategy = "interleave"
    /\ mOut = <<>>
    /\ mPc = "in"
    /\ FusionIdle
    /\ IndexIdle
    /\ RaceIdle
    /\ TokIdle
    /\ BlendIdle
    /\ RelIdle
    /\ IngestIdle

MergeCall ==
    /\ mPc = "in"
    /\ \E k \in 0..MaxMergeK, s \in Strategies :
        /\ mK' = k
        /\ mStrategy' = s
        /\ mOut' = MergeResults(mIn, k, s)
    /\ mPc' = "out"
    /\ UNCHANGED <<mIn, engineVars, fusionVars, indexVars, otherVars>>

MergeNext == MergeCall

MergeSpec == MergeInit /\ [][MergeNext]_vars

\* no engine call and no merge under way
EngineIdle ==
    /\ chroma_client = FALSE
    /\ embeddings = FALSE
    /\ cache = EmptyCache
    /\ origin = EmptyCache
    /\ pc = "idle"
    /\ call = NoCall
    /\ target = <<>>
    /\ tasks = <<>>
    /\ result = <<>>
    /\ discovered = FALSE
    /\ cacheTouched = FALSE
    /\ calls = 0
    /\ order = <<>>
    /\ mIn = <<>>
    /\ mK = 0
    /\ mStrategy = "interleave"
    /\ mOut = <<>>
    /\ mPc = "idle"

\* _tokenize_text is handed a text
TokInit ==
    /\ EngineIdle
    /\ FusionIdle
    /\ IndexIdle
    /\ RaceIdle
    /\ BlendIdle
    /\ RelIdle
    /\ IngestIdle
    /\ tPc = "in"
    /\ tText \in Texts
    /\ tTokens = <<>>

TokSpec == TokInit /\ [][TokNext]_vars

\* the candidates of one collection are combined
BlendInit ==
    /\ EngineIdle
    /\ FusionIdle
    /\ IndexIdle
    /\ RaceIdle
    /\ TokIdle
    /\ RelIdle
    /\ IngestIdle
    /\ bPc = "in"
    /\ combined_results \in CombinedResults
    /\ bScores = <<>>

BlendSpec == BlendInit /\ [][BlendNext]_vars

\* collection.query has answered on the vector-only path
RelInit ==
    /\ EngineIdle
    /\ FusionIdle
    /\ IndexIdle
    /\ RaceIdle
    /\ TokIdle
    /\ BlendIdle
    /\ IngestIdle
    /\ dPc = "in"
    /\ distances \in DistanceLists
    /\ dMinRelevance \in RelMinRelevances
    /\ dResults = <<>>

RelSpec == RelInit /\ [][RelNext]_vars

\* all the other components at rest
QueryIdle ==
    /\ EngineIdle
    /\ FusionIdle
    /\ IndexIdle
    /\ RaceIdle
    /\ TokIdle
    /\ BlendIdle
    /\ RelIdle

\* process_document_pipeline is called with a file path
PipeInit ==
    /\ QueryIdle
    /\ pPc = "start"
    /\ pIn \in PipeInputs
    /\ pFile = pIn.on_disk
    /\ pParams = NoParams
    /\ pPending = "none"
    /\ pExit = "none"
    /\ RouteIdle
    /\ CountIdle
    /\ ChunkIdle
    /\ UploadIdle

PipeSpec == PipeInit /\ [][PipeNext]_vars

\* a router with its rules is handed a classification
RouteInit ==
    /\ QueryIdle
    /\ PipeIdle
    /\ rtPc = "in"
    /\ routing_rules \in [rules : RuleLists, defaults : RuleDefaults]
    /\ classification_result \in Classifications
    /\ decision = NoDecision
    /\ CountIdle
    /\ ChunkIdle
    /\ UploadIdle

RouteSpec == RouteInit /\ [][RouteNext]_vars

\* a query for one collection that holds hStored chunks
CountInit ==
    /\ QueryIdle
    /\ PipeIdle
    /\ RouteIdle
    /\ hPc = "in"
    /\ hStored \in 0..MaxStored
    /\ hCall \in [n_results : 0..MaxStored, merge_strategy : Strategies]
    /\ hResult = <<>>
    /\ ChunkIdle
    /\ UploadIdle

CountSpec == CountInit /\ [][CountNext]_vars

\* _chunk_text is called with a text and the parameters of a routing decision
ChunkInit ==
    /\ QueryIdle
    /\ PipeIdle
    /\ RouteIdle
    /\ CountIdle
    /\ cPc = "call"
    /\ text_length \in 0..MaxDocLen
    /\ chunk_size \in 1..MaxDocLen
    /\ overlap \in 0..MaxDocLen
    /\ start = 0
    /\ chunks = <<>>
    /\ UploadIdle

ChunkSpec == ChunkInit /\ [][ChunkNext]_vars

\* upload requests arrive at a server that has just started
UploadInit ==
    /\ QueryIdle
    /\ PipeIdle
    /\ RouteIdle
    /\ CountIdle
    /\ ChunkIdle
    /\ UploadIdle

\* the event loop runs every callback that is ready: a woken request resumes
UploadSpec ==
    UploadInit /\ [][UploadNext]_vars /\ \A r \in Uploads : WF_vars(UploadResumes(r))

----------------------------------------------------------------------------
(* Properties *)

Done(t) == t.st # "pending"

RECURSIVE RawOfOk(_)
\* the unfiltered lists of the tasks that raised nothing, in target order
RawOfOk(ts) ==
    IF ts = <<>> THEN <<>>
    ELSE (IF Head(ts).st = "ok" THEN Head(ts).raw ELSE <<>>) \o RawOfOk(Tail(ts))

RECURSIVE FilteredRawOfOk(_, _)
FilteredRawOfOk(ts, m) ==
    IF ts = <<>> THEN <<>>
    ELSE (IF Head(ts).st = "ok"
          THEN SelectBy(Head(ts).raw, {r \in Range(Head(ts).raw) : r.relevance_score >= m})
          ELSE <<>>) \o FilteredRawOfOk(Tail(ts), m)

CollectionsIn(list) == {list[i].collection_name : i \in DOMAIN list}

\* C1: query never raises because of a per-collection failure. Once the fan-out
\* has begun the call returns a list, every element of which comes from a task
\* that succeeded, and when resultCount leaves room for all of them the list
\* holds every result of every task that succeeded.
C1_PartialFailureIsolated ==
    /\ tasks # <<>> => pc \in {"fanout", "returned"}
    /\ (pc = "returned" /\ tasks # <<>>) =>
        /\ \A r \in Range(result) :
              \E i \in DOMAIN tasks :
                  /\ tasks[i].st = "ok"
                  /\ target[i] = r.collection_name
                  /\ r \in Range(tasks[i].res)
        /\ LET total == Len(OkResults(tasks))
           IN  (total <= call.n_results) =>
                  /\ Len(result) = total
                  /\ \A i \in DOMAIN tasks :
                        tasks[i].st = "ok" => Range(tasks[i].res) \subseteq Range(result)

\* one of three target collections is absent, another task raised or not, and
\* the results of the two other collections are in the list
C1_Witness ==
    /\ pc = "returned"
    /\ Len(tasks) = 3
    /\ tasks[3].hyb = "absent"
    /\ tasks[1].res # <<>> /\ tasks[2].res # <<>>
    /\ CollectionsIn(result) = {target[1], target[2]}

C1_WitnessBothPathsFailed ==
    /\ pc = "returned"
    /\ Len(tasks) = 3
    /\ tasks[2].st = "exc"
    /\ CollectionsIn(result) = {target[1], target[3]}

RECURSIVE RoundRobinFrom(_, _, _)
\* rounds i, i+1, ...: round i holds the i-th result of each collection that has one
RoundRobinFrom(all_results, names, i) ==
    IF \A j \in DOMAIN names : Len(ResultsOf(all_results, names[j])) < i THEN <<>>
    ELSE Concat([j \in DOMAIN names |->
                    IF i <= Len(ResultsOf(all_results, names[j]))
                    THEN <<ResultsOf(all_results, names[j])[i]>> ELSE <<>>])
         \o RoundRobinFrom(all_results, names, i + 1)

RoundRobin(all_results) == RoundRobinFrom(all_results, CollectionOrder(all_results), 1)

\* C2: with 'interleave' the merged list is the round-robin of the per-collection
\* lists, collections in first-seen order, cut when resultCount items were taken.
C2_InterleaveIsRoundRobin ==
    (mPc = "out" /\ mStrategy = "interleave") => mOut = Take(RoundRobin(mIn), mK)

\* the same for the calls with resultCount >= 1
C2_RoundRobinForPositiveK ==
    (mPc = "out" /\ mStrategy = "interleave" /\ mK >= 1) => mOut = Take(RoundRobin(mIn), mK)

\* A = [a1, a2, a3], B = [b1], resultCount = 4 gives [a1, b1, a2, a3]
C2_Example ==
    (/\ mPc = "out" /\ mStrategy = "interleave" /\ mK = 4
     /\ [i \in DOMAIN mIn |-> mIn[i].collection_name] = <<"A", "A", "A", "B">>)
    => [i \in DOMAIN mOut |-> mOut[i].content] = <<1, 4, 2, 3>>

\* C3: with 'best' the merged list is the candidates sorted by relevance
\* descending and cut to resultCount: it has min(resultCount, candidates) distinct
\* candidates, in descending order, and no candidate left out scores strictly
\* higher than one that was kept.
C3_BestIsTopK ==
    (mPc = "out" /\ mStrategy = "best") =>
        /\ Len(mOut) = Min2(mK, Len(mIn))
        /\ Range(mOut) \subseteq Range(mIn)
        /\ Cardinality(Range(mOut)) = Len(mOut)
        /\ \A i, j \in DOMAIN mOut :
              i < j => mOut[i].relevance_score >= mOut[j].relevance_score
        /\ \A x \in Range(mIn) \ Range(mOut), y \in Range(mOut) :
              x.relevance_score <= y.relevance_score

\* a candidate is left out, and the input was not in descending order
C3_Witness ==
    /\ mPc = "out" /\ mStrategy = "best"
    /\ mK >= 2 /\ Len(mIn) > mK
    /\ \E i, j \in DOMAIN mIn : i < j /\ mIn[i].relevance_score < mIn[j].relevance_score
    /\ \E x \in Range(mIn) \ Range(mOut), y \in Range(mOut) :
          x.relevance_score < y.relevance_score

\* C4 as claimed: the output is the merge of the unfiltered per-collection lists,
\* from which the items below minRelevance are then removed. Stated for the
\* calls with resultCount >= 1, where the length check of the interleave loop
\* (C6) plays no part.
C4_FilterAfterMerge ==
    (pc = "returned" /\ tasks # <<>> /\ call.n_results >= 1) =>
        result = FilterByRelevance(
                     MergeResults(RawOfOk(tasks), call.n_results, call.merge_strategy),
                     call.min_relevance)

\* C4 amended: minRelevance is applied to each collection's list before the
\* merge: the output is the merge of the per-collection lists from which the
\* items below minRelevance were removed. With 'best' this is also the merge of
\* the unfiltered lists filtered afterwards.
C4_FilterBeforeMerge ==
    (pc = "returned" /\ tasks # <<>>) =>
        /\ result = MergeResults(FilteredRawOfOk(tasks, call.min_relevance),
                                 call.n_results, call.merge_strategy)
        /\ call.merge_strategy = "best" =>
              result = FilterByRelevance(
                           MergeResults(RawOfOk(tasks), call.n_results, "best"),
                           call.min_relevance)

\* two collections answered, the filter removed a result, and the output is not
\* what filtering after the merge would give
C4_Witness ==
    /\ pc = "returned"
    /\ call.n_results >= 1
    /\ call.merge_strategy = "interleave"
    /\ Cardinality(CollectionsIn(RawOfOk(tasks))) >= 2
    /\ OkResults(tasks) # RawOfOk(tasks)
    /\ result # <<>>
    /\ result # FilterByRelevance(
                    MergeResults(RawOfOk(tasks), call.n_results, call.merge_strategy),
                    call.min_relevance)

\* C5: every result query returns has relevance_score >= minRelevance, whether
\* it came from a cache hit, the hybrid retrieval or the vector-only fallback.
C5_RelevanceFloor ==
    pc = "returned" => \A r \in Range(result) : r.relevance_score >= call.min_relevance

\* a cache hit whose stored list holds results below the floor, and some above
C5_Witness ==
    /\ pc = "returned"
    /\ Len(tasks) = 1 /\ tasks[1].via = "hit"
    /\ \E r \in Range(tasks[1].raw) : r.relevance_score < call.min_relevance
    /\ result # <<>>

\* C6: for both strategies and every resultCount >= 0 the list returned by query
\* has at most resultCount elements.
C6_AtMostResultCount ==
    pc = "returned" => Len(result) <= call.n_results

\* the same for the calls with resultCount >= 1
C6_AtMostPositiveResultCount ==
    (pc = "returned" /\ call.n_results >= 1) => Len(result) <= call.n_results

KeyOf(i) == MakeKey(target[i], call.query_text, call.n_results, call.filters)

\* C7: the cache holds unfiltered lists (what the hybrid retrieval or the
\* vector-only query answered for the key), and a hit returns the stored items
\* with score >= the minRelevance of the reading call, whatever minRelevance
\* the call that stored them had.
C7_CacheUnfiltered ==
    /\ \A key \in DOMAIN cache :
          \/ /\ origin[key].via = "hybrid"
             /\ cache[key] \in {HybridDocs(key.collection), <<>>}
          \/ /\ origin[key].via = "fallback"
             /\ cache[key] = VectorQuery(key.collection, key.k, key.filters)
    /\ \A i \in DOMAIN tasks :
          (pc = "fanout" /\ tasks[i].via = "hit") =>
              /\ KeyOf(i) \in DOMAIN cache
              /\ tasks[i].res = SelectBy(cache[KeyOf(i)],
                                    {r \in Range(cache[KeyOf(i)]) :
                                        r.relevance_score >= call.min_relevance})

\* an entry stored by a call with minRelevance 2 is read by a call with
\* minRelevance 0, which gets a result below 2
C7_Witness ==
    /\ pc = "fanout"
    /\ Len(tasks) = 1 /\ tasks[1].via = "hit"
    /\ KeyOf(1) \in DOMAIN origin
    /\ origin[KeyOf(1)].min_relevance = 2
    /\ call.min_relevance = 0
    /\ \E r \in Range(tasks[1].res) : r.relevance_score < 2

\* C8: the cache key is (collection, query, k, filters). A task whose key is in
\* the cache is served exactly the list stored under that key, and a task whose
\* key is not in the cache is a miss, also when the cache holds an entry that
\* differs from the key in the filters only.
C8_CacheKeyed ==
    [][ \A i \in DOMAIN tasks :
          (/\ pc = "fanout" /\ pc' = "fanout"
           /\ tasks[i].st = "pending" /\ tasks'[i].st # "pending") =>
              IF KeyOf(i) \in DOMAIN cache
              THEN /\ tasks'[i].via = "hit"
                   /\ tasks'[i].raw = cache[KeyOf(i)]
                   /\ origin[KeyOf(i)].filters = call.filters
              ELSE tasks'[i].via # "hit" ]_vars

\* a filtered call misses although the filterless entry of the same collection,
\* query and k is in the cache
C8_Witness ==
    /\ pc = "fanout"
    /\ Len(tasks) = 1 /\ tasks[1].via \in {"hybrid", "fallback"}
    /\ call.filters = "x"
    /\ MakeKey(target[1], call.query_text, call.n_results, NoFilter) \in DOMAIN cache
    /\ cache[MakeKey(target[1], call.query_text, call.n_results, NoFilter)] # tasks[1].raw

\* C9: an exception met while the hybrid retriever is built or retrieves, other
\* than the collection being absent or empty, leads to the vector-only fallback
\* being attempted for that collection.
C9_FailureReachesFallback ==
    \A i \in DOMAIN tasks :
        (Done(tasks[i]) /\ tasks[i].hyb \in {"handle_error", "build_error", "retrieve_error"})
            => tasks[i].fb # "none"

\* the same for the failures met after the collection handle was fetched
C9_LaterFailureReachesFallback ==
    \A i \in DOMAIN tasks :
        (Done(tasks[i]) /\ tasks[i].hyb \in {"build_error", "retrieve_error"})
            => tasks[i].fb # "none"

\* C10: query raises only before the fan-out: with the client or the embeddings
\* missing it raises before it discovers a collection, touches the cache or
\* starts a task; once tasks exist the call does not raise.
C10_FailsOnlyBeforeFanOut ==
    /\ pc = "raised" => (tasks = <<>> /\ target = <<>> /\ ~cacheTouched)
    /\ (calls > 0 /\ (~chroma_client \/ ~embeddings)) =>
          (pc = "raised" /\ ~discovered /\ ~cacheTouched /\ tasks = <<>>)
    /\ (pc = "returned" /\ tasks # <<>>) => \A i \in DOMAIN tasks : Done(tasks[i])

\* a call without collection names on an engine without embeddings raised, and
\* no collection was discovered
C10_Witness ==
    /\ pc = "raised"
    /\ chroma_client /\ ~embeddings
    /\ call.collection_names = <<>>
    /\ ~discovered

\* the results of the tasks that succeeded, concatenated in target order
PooledInTargetOrder ==
    Concat([i \in DOMAIN tasks |-> IF tasks[i].st = "ok" THEN tasks[i].res ELSE <<>>])

\* C11: the merge starts only after every per-collection task of the call has
\* terminated. The step that leaves the fan-out is taken with no task pending,
\* merges exactly the results the tasks hold at that moment, and once the call
\* has left the fan-out no task of that call changes and the result stays.
C11_MergeAfterBarrier ==
    [][ /\ (pc = "fanout" /\ pc' # "fanout") =>
              /\ \A i \in DOMAIN tasks : Done(tasks[i])
              /\ tasks' = tasks
              /\ result' = MergeResults(PooledInTargetOrder, call.n_results,
                                        call.merge_strategy)
        /\ (pc # "fanout" /\ calls' = calls) => (tasks' = tasks /\ result' = result)
      ]_vars

\* a call over three collections has returned; tasks succeeded and a task failed
C11_Witness ==
    /\ pc = "returned"
    /\ Len(tasks) = 3
    /\ \E i \in DOMAIN tasks : tasks[i].st = "exc"
    /\ Cardinality({i \in DOMAIN tasks : tasks[i].st = "ok" /\ tasks[i].res # <<>>}) = 2
    /\ result # <<>>

\* C12: the list query returns is decided by the per-collection results and the
\* target order alone, whatever the order in which the tasks completed; with
\* 'best' and resultCount 1 it is the single highest-scoring item, carrying the
\* name of the collection whose task produced it.
C12_CompletionOrderIrrelevant ==
    (pc = "returned" /\ tasks # <<>>) =>
        /\ result = MergeResults(PooledInTargetOrder, call.n_results, call.merge_strategy)
        /\ (call.merge_strategy = "best" /\ call.n_results = 1 /\ PooledInTargetOrder # <<>>) =>
              /\ Len(result) = 1
              /\ \A r \in Range(PooledInTargetOrder) :
                     r.relevance_score <= result[1].relevance_score
              /\ \E i \in DOMAIN tasks :
                     /\ tasks[i].st = "ok"
                     /\ result[1] \in Range(tasks[i].res)
                     /\ target[i] = result[1].collection_name

\* 'best' with resultCount 1 over B then A: the task of A completed first, and
\* the top item is A's although B comes first in the target order
C12_Witness ==
    /\ pc = "returned"
    /\ target = <<"B", "A">>
    /\ order = <<2, 1>>
    /\ call.merge_strategy = "best"
    /\ call.n_results = 1
    /\ tasks[1].st = "ok" /\ tasks[1].res # <<>>
    /\ tasks[2].st = "ok" /\ tasks[2].res # <<>>
    /\ result # <<>>
    /\ result[1].collection_name = "A"

\* C13: a retrieval that never completes does not block the query. When the
\* retrieval of one collection hangs and every other task has terminated, the
\* query can still take a step (a timeout, then the merge of what the other
\* collections returned).
C13_HungTaskDoesNotBlock ==
    (/\ pc = "fanout"
     /\ \E i \in DOMAIN tasks :
           /\ tasks[i].st = "pending" /\ tasks[i].via = "hung"
           /\ \A j \in DOMAIN tasks \ {i} : tasks[j].st = "ok")
        => ENABLED HangNext

----------------------------------------------------------------------------
(* Properties of the fusion retriever *)

\* the list sub-retriever i contributed: its own list, nothing if it failed
ListOf(i) == IF fOutcomes[i].ok THEN fOutcomes[i].list ELSE <<>>

\* the places <<sub-retriever, position>> at which an item with this key stands
Occurrences(key) ==
    UNION { { <<i, r>> : r \in {x \in DOMAIN ListOf(i) : NodeKey(ListOf(i)[x]) = key} } :
            i \in DOMAIN fOutcomes }

AllKeys == UNION { { NodeKey(ListOf(i)[r]) : r \in DOMAIN ListOf(i) } : i \in DOMAIN fOutcomes }

RECURSIVE SumOfTerms(_)
\* sum of weight_i / (rank + K) over places <<i, position>>, rank = position - 1
SumOfTerms(places) ==
    IF places = {} THEN 0
    ELSE LET p == CHOOSE x \in places : TRUE
         IN  (fWeights[p[1]] * RrfScale) \div ((p[2] - 1) + RrfK) + SumOfTerms(places \ {p})

KeysOf(list) == [j \in DOMAIN list |-> list[j].key]

NodesOf(list) == [j \in DOMAIN list |-> list[j].node]

Distinct(seq) == \A a, b \in DOMAIN seq : seq[a] = seq[b] => a = b

\* C14: the fused score of every returned item is the sum of weight_i/(r + K)
\* over the places where the sub-retrievers returned it (r the zero-based rank,
\* K = 60); items are matched by identifier, and by the hash of their text when
\* they have none, and each stands once in the output, which holds every item
\* returned when topK leaves room.
C14_FusedScoreIsWeightedSum ==
    fPc = "done" =>
        /\ RrfK = 60
        /\ \A j \in DOMAIN fOut :
              /\ fOut[j].key = NodeKey(fOut[j].node)
              /\ fOut[j].key \in AllKeys
              /\ fOut[j].score = SumOfTerms(Occurrences(fOut[j].key))
        /\ Distinct(KeysOf(fOut))
        /\ Cardinality(AllKeys) <= fTopK => Range(KeysOf(fOut)) = AllKeys

\* two sub-retrievers at weights 0.7 and 0.3 returned two node objects without
\* identifier and with the same text, at ranks 0 and 1: one fused item
C14_Witness ==
    /\ fPc = "done"
    /\ fWeights = FactoryWeights
    /\ \E j \in DOMAIN fOut :
          /\ fOut[j].node.node_id = NoNodeId
          /\ Occurrences(fOut[j].key) = { <<1, 1>>, <<2, 2>> }
          /\ fOutcomes[1].list[1] # fOutcomes[2].list[2]
          /\ fOut[j].score = 7 * (RrfScale \div 60) + 3 * (RrfScale \div 61)

\* the first place, by sub-retriever and then by rank, at which the key stands
FirstSeen(key) ==
    CHOOSE p \in Occurrences(key) :
        \A q \in Occurrences(key) : p[1] < q[1] \/ (p[1] = q[1] /\ p[2] <= q[2])

\* key a goes before key b: higher fused score, or equal score and seen first
GoesBefore(a, b) ==
    LET sa == SumOfTerms(Occurrences(a))
        sb == SumOfTerms(Occurrences(b))
        pa == FirstSeen(a)
        pb == FirstSeen(b)
    IN  sa > sb \/ (sa = sb /\ (pa[1] < pb[1] \/ (pa[1] = pb[1] /\ pa[2] < pb[2])))

\* C15: the returned list is in descending order of fused score, items of
\* equal score in the order in which they were first seen (sub-retriever index,
\* then rank); it has at most topK elements, the first ones of that order.
C15_OrderedAndTruncated ==
    fPc = "done" =>
        /\ Len(fOut) <= fTopK
        /\ Len(fOut) = Min2(fTopK, Cardinality(AllKeys))
        /\ \A j \in DOMAIN fOut : fOut[j].key \in AllKeys
        /\ \A a, b \in DOMAIN fOut :
              a < b => /\ fOut[a].score >= fOut[b].score
                       /\ GoesBefore(fOut[a].key, fOut[b].key)
        /\ \A j \in DOMAIN fOut : \A key \in AllKeys \ Range(KeysOf(fOut)) :
              GoesBefore(fOut[j].key, key)

\* two items of equal fused score and topK = 1: the one seen first is returned
C15_Witness ==
    /\ fPc = "done"
    /\ fRetrievers = 2
    /\ fTopK = 1
    /\ Len(fOut) = 1
    /\ \E other \in AllKeys :
          /\ other # fOut[1].key
          /\ SumOfTerms(Occurrences(other)) = fOut[1].score
          /\ FirstSeen(fOut[1].key) = <<1, 1>>

\* items of equal fused score, both returned, the one seen first standing first
C15_WitnessTie ==
    /\ fPc = "done"
    /\ Len(fOut) = 2
    /\ fOut[1].score = fOut[2].score
    /\ FirstSeen(fOut[1].key) = <<1, 1>>
    /\ FirstSeen(fOut[2].key) = <<1, 2>>

\* a fusion retriever with one sub-retriever at weight 1.0 has answered from
\* the list the sub-retriever returned
SingleAtWeightOne ==
    /\ fPc = "done"
    /\ fRetrievers = 1
    /\ fWeights = <<WeightOne>>
    /\ fOutcomes[1].ok

\* C16 as stated: with a single sub-retriever at weight 1.0 the fused output
\* lists the same items as the sub-retriever's list, in the same order, for
\* every list.
C16_SingleReproducesList ==
    SingleAtWeightOne => NodesOf(fOut) = fOutcomes[1].list

\* C16, amended: with a single sub-retriever at weight 1.0 whose list holds no
\* item twice, the fused output is the first topK items of that list, in the
\* same order.
C16_SingleReproducesFirstTopK ==
    (SingleAtWeightOne /\ Distinct([r \in DOMAIN fOutcomes[1].list |->
                                       NodeKey(fOutcomes[1].list[r])]))
        => NodesOf(fOut) = Take(fOutcomes[1].list, fTopK)

\* a list of two distinct items comes back whole and in order
C16_Witness ==
    /\ SingleAtWeightOne
    /\ Len(fOutcomes[1].list) = 2
    /\ NodeKey(fOutcomes[1].list[1]) # NodeKey(fOutcomes[1].list[2])
    /\ fTopK >= 2
    /\ NodesOf(fOut) = fOutcomes[1].list

\* a list longer than topK comes back cut to its first topK items
C16_WitnessCut ==
    /\ SingleAtWeightOne
    /\ Len(fOutcomes[1].list) = 2
    /\ NodeKey(fOutcomes[1].list[1]) # NodeKey(fOutcomes[1].list[2])
    /\ fTopK = 1
    /\ NodesOf(fOut) = <<fOutcomes[1].list[1]>>

\* the sub-retrievers that returned a list
Succeeded == {i \in DOMAIN fOutcomes : fOutcomes[i].ok}

\* C17: a failing sub-retriever counts as an empty list and retrieve still
\* returns, on the async and on the sync path. Every returned item comes from
\* a sub-retriever that succeeded and its score is the sum of the terms of the
\* sub-retrievers that succeeded, each with its own weight; with two
\* sub-retrievers of which one fails the output is the survivor's list in its
\* order, weighted with the survivor's weight; when all fail the output is empty.
C17_FailedSubRetrieverIsEmpty ==
    (fPc = "done" /\ Succeeded # DOMAIN fOutcomes) =>
        /\ fMode \in {"async", "sync"}
        /\ \A j \in DOMAIN fOut :
              /\ \E i \in Succeeded : fOut[j].node \in Range(fOutcomes[i].list)
              /\ fOut[j].score =
                    SumOfTerms({p \in Occurrences(fOut[j].key) : p[1] \in Succeeded})
        /\ Range(KeysOf(fOut)) \subseteq AllKeys
        /\ Len(fOut) = Min2(fTopK, Cardinality(AllKeys))
        /\ Succeeded = {} => fOut = <<>>
        /\ \A i \in Succeeded :
              (fRetrievers = 2 /\ Succeeded = {i} /\
               Distinct([r \in DOMAIN fOutcomes[i].list |-> NodeKey(fOutcomes[i].list[r])]))
              => /\ NodesOf(fOut) = Take(fOutcomes[i].list, fTopK)
                 /\ \A j \in DOMAIN fOut :
                       fOut[j].score = (fWeights[i] * RrfScale) \div ((j - 1) + RrfK)

\* sync path, weights 0.7 and 0.3: the first sub-retriever failed, the second
\* returned two items, which come back in its order at the weight 0.3
C17_Witness ==
    /\ fPc = "done"
    /\ fMode = "sync"
    /\ fWeights = FactoryWeights
    /\ ~fOutcomes[1].ok
    /\ fOutcomes[2].ok
    /\ Len(fOut) = 2
    /\ NodesOf(fOut) = fOutcomes[2].list
    /\ fOut[1].score = 3 * (RrfScale \div 60)

\* async path, both sub-retrievers failed: the empty list
C17_WitnessAllFailed ==
    /\ fPc = "done"
    /\ fMode = "async"
    /\ fRetrievers = 2
    /\ Succeeded = {}
    /\ fOut = <<>>

\* C18: a supplied weight list whose length differs from the number of
\* sub-retrievers makes the construction raise and is never replaced by
\* default weights: every fusion retriever that exists, or has answered, for
\* which the caller supplied a list has that many sub-retrievers and those weights.
C18_MismatchRaisesAtConstruction ==
    (fPc \in {"built", "done"} /\ fWeightsArg.given) =>
        /\ Len(fWeightsArg.list) = fRetrievers
        /\ fWeights = fWeightsArg.list

----------------------------------------------------------------------------
(* Properties of the lexical index *)

IdsOf(list) == {list[i].id : i \in DOMAIN list}

\* the corpus an add_nodes call works on: the persisted one when the manager
\* has no scoring structure yet and the file can be read, else the one in memory
CorpusBeforeAdd ==
    IF ~bm25_index.built /\ index_file.kind = "blob" THEN index_file.nodes ELSE nodes

\* the text of the last chunk of the list that has this identifier
LastTextOf(list, id) ==
    LET last == CHOOSE i \in DOMAIN list :
                    /\ list[i].id = id
                    /\ \A j \in DOMAIN list : list[j].id = id => j <= i
    IN  list[last].text

\* C19: re-adding a chunk whose identifier is already in the index leaves the
\* corpus size unchanged, keeps the chunk at its position and replaces its text
\* (by the text of its last occurrence when the identifier occurs more than
\* once in the call); the corpus grows only by the identifiers that are new, and
\* chunks the call does not name stay as they are.
C19_ReAddReplacesInPlace ==
    [][ (iOp' = "add" /\ iArg' # <<>>) =>
            LET before == CorpusBeforeAdd
            IN  /\ Len(nodes') = Len(before) + Cardinality(IdsOf(iArg') \ IdsOf(before))
                /\ IdsOf(iArg') \subseteq IdsOf(before) => Len(nodes') = Len(before)
                /\ \A p \in DOMAIN before :
                      /\ p \in DOMAIN nodes'
                      /\ nodes'[p].id = before[p].id
                      /\ nodes'[p].text = IF before[p].id \in IdsOf(iArg')
                                          THEN LastTextOf(iArg', before[p].id)
                                          ELSE before[p].text
      ]_vars

\* c1 was handed to add_nodes twice in one call; it stands once, at the first
\* position, before a chunk the call did not name, with the text handed last
C19_Witness ==
    /\ iOp = "add"
    /\ iArg = << [id |-> "c1", text |-> "t1"], [id |-> "c1", text |-> "t2"] >>
    /\ Len(nodes) = 2
    /\ nodes[1] = [id |-> "c1", text |-> "t2"]
    /\ nodes[2].id = "c2"

\* C20: the identifier map is a bijection onto the positions of the corpus. No
\* two chunks share an identifier, the map holds exactly the identifiers of the
\* corpus, and map[id] = i exactly when the chunk at (zero-based) position i has
\* identifier id; after every add, rebuild, load and new manager.
C20_MapIsBijection ==
    /\ \A a, b \in DOMAIN nodes : nodes[a].id = nodes[b].id => a = b
    /\ DOMAIN node_id_map = IdsOf(nodes)
    /\ \A id \in DOMAIN node_id_map : \A i \in DOMAIN nodes :
          (node_id_map[id] = i - 1) <=> (nodes[i].id = id)

\* a manager has loaded a persisted index of two chunks, c2 before c1
C20_Witness ==
    /\ iOp = "load"
    /\ bm25_index.built
    /\ Len(nodes) = 2
    /\ nodes[1].id = "c2"
    /\ node_id_map["c1"] = 1

\* a rebuild has raised half-way: the corpus holds the entries read so far
C20_WitnessRebuildRaised ==
    /\ iOp = "update"
    /\ iRaised
    /\ Len(nodes) = 1

\* the texts of the corpus, by position
TextsOf(ns) == [i \in DOMAIN ns |-> ns[i].text]

\* the scoring structure was built from exactly the current corpus: it covers
\* as many documents as the corpus has chunks, in the same positions; without
\* a scoring structure the corpus is empty
ScoringMatchesCorpus ==
    /\ bm25_index.built => bm25_index.corpus = TextsOf(nodes)
    /\ ~bm25_index.built => nodes = <<>>

\* C21: between operations the scoring structure was built from exactly the
\* current corpus. Every operation (new manager, load, add, rebuild, whether it
\* returns or raises) that starts with the two in agreement ends with the two in
\* agreement; stated for a store in which every entry has a document.
C21_ScoringMatchesCorpus ==
    [][ (ScoringMatchesCorpus /\ \A i \in DOMAIN iArg' : iArg'[i].text # NoDocument)
            => ScoringMatchesCorpus' ]_vars

\* C22: the index is persisted after every mutation and the file mirrors the
\* memory: after an add_nodes with a non-empty list, or a rebuild, that returned
\* without error, the file holds exactly the corpus, the identifier map and the
\* scoring structure of the manager.
C22_PersistedMirrorsMemory ==
    (((iOp = "add" /\ iArg # <<>>) \/ iOp = "update") /\ ~iRaised) =>
        /\ index_file.kind = "blob"
        /\ index_file.nodes = nodes
        /\ index_file.node_id_map = node_id_map
        /\ index_file.bm25_index = bm25_index

\* C23: load on a fresh manager whose file is absent, unreadable, corrupt or
\* lacks part of the expected content raises nothing and leaves the index
\* empty: no corpus, no identifier map, no scoring structure.
C23_LoadOfBadFileIsEmpty ==
    [][ (iOp = "new" /\ iOp' = "load" /\ index_file.kind # "blob")
            => (~iRaised' /\ bm25_index' = NoIndex /\ nodes' = <<>>
                /\ node_id_map' = EmptyMap) ]_vars

\* C24: a load that runs while the writer is between the open and the dump of
\* its save yields the complete previous index or the complete new one
C24_ReaderSeesPreviousOrNew ==
    [][ (wPc = "opened" /\ rIndex' # rIndex)
            => (rIndex'.index = Loaded(wPrev, FreshMemory) \/ rIndex'.index = Memory) ]_vars

\* the entries of the store whose text is not blank, in the store's order
NotBlankEntry(entry) == entry.text # Blank

NonBlankEntries(entries) == SelectSeq(entries, NotBlankEntry)

\* C25: a rebuild from a store that lists entries, each with a document,
\* returns, and the corpus is then exactly the entries whose text is not blank,
\* in the store's order and under their identifiers; skipped blank entries do
\* not make the rebuild fail.
C25_RebuildReplacesCorpus ==
    (iOp = "update" /\ iArg # <<>> /\ \A i \in DOMAIN iArg : iArg[i].text # NoDocument) =>
        /\ ~iRaised
        /\ nodes = NonBlankEntries(iArg)
        /\ DOMAIN node_id_map = { nodes[i].id : i \in DOMAIN nodes }
        /\ \A i \in DOMAIN nodes : node_id_map[nodes[i].id] = i - 1

\* the digits that follow position i - 1
DigitRunAt(text, i) == SubSeq(text, i, i + RunLen(text, i, Digits) - 1)

\* the sigil at position i, then w whitespace characters, then a digit
SigilPatternAt(text, i, w) ==
    /\ text[i] = Sigil
    /\ i + w + 1 <= Len(text)
    /\ \A j \in (i + 1)..(i + w) : text[j] \in Whitespace
    /\ text[i + w + 1] \in Digits

\* C26: for every sigil of the input that is followed by digits, adjacent or
\* after whitespace, the output holds the joined token (sigil plus digits) and,
\* directly after it, the token of the bare digits.
C26_SigilGivesJoinedAndBare ==
    tPc = "out" =>
        \A i \in DOMAIN tText, w \in 0..Len(tText) :
            SigilPatternAt(tText, i, w) =>
                \E j \in 1..(Len(tTokens) - 1) :
                    /\ tTokens[j] = <<Sigil>> \o DigitRunAt(tText, i + w + 1)
                    /\ tTokens[j + 1] = DigitRunAt(tText, i + w + 1)

C26_Witness ==
    /\ tPc = "out"
    /\ tText = <<Sigil, " ", "2", "0">>
    /\ tTokens = << <<Sigil, "2", "0">>, <<"2", "0">> >>

C26_WitnessAdjacent ==
    /\ tPc = "out"
    /\ tText = <<"A", Sigil, "2", "a">>
    /\ tTokens = << <<"a">>, <<Sigil, "2">>, <<"2">>, <<"a">> >>

RECURSIVE SpaceJoined(_)
\* the tokens joined by single spaces
SpaceJoined(tokens) ==
    IF tokens = <<>> THEN <<>>
    ELSE IF Len(tokens) = 1 THEN Head(tokens)
    ELSE Head(tokens) \o <<" ">> \o SpaceJoined(Tail(tokens))

\* the tokens of the space-joined tokens
TokenizedAgain == TokenizeText(SpaceJoined(tTokens))

\* lowercase ASCII: no sigil, no capital
LowerAscii(text) == \A i \in DOMAIN text : text[i] \in {" ", "0", "2", "a"}

LongNumber(token) == IsDigit(token) /\ Len(token) > 1

\* C27 as stated: on lowercase ASCII text the tokens of the space-joined
\* tokens are the tokens themselves, multi-digit numbers included.
C27_Idempotent ==
    (tPc = "out" /\ LowerAscii(tText)) => TokenizedAgain = tTokens

\* C27: on lowercase ASCII text none of whose tokens is a number of two or
\* more digits, the tokens of the space-joined tokens are the tokens themselves.
C27_IdempotentWithoutLongNumbers ==
    (tPc = "out" /\ LowerAscii(tText)
        /\ \A j \in DOMAIN tTokens : ~LongNumber(tTokens[j]))
    => TokenizedAgain = tTokens

C27_Witness ==
    /\ tPc = "out"
    /\ tText = <<"a", "2", " ", "2">>
    /\ tTokens = << <<"a", "2">>, <<"2">> >>
    /\ TokenizedAgain = tTokens

\* the digits of a number from its first digit that is not a zero, one by one
DigitsAfterLeadingZeros(text) ==
    LET lz == RunLen(text, 1, {"0"})
    IN  [k \in 1..(Len(text) - lz) |-> <<text[lz + k]>>]

\* C28: for a text that is one number of two or more digits the output is the
\* number and then each of its digits, leaving out only the leading zeros.
C28_NonLeadingZerosEmitted ==
    (tPc = "out" /\ LongNumber(tText))
        => tTokens = <<tText>> \o DigitsAfterLeadingZeros(tText)

\* the values of one signal over the candidate set
VectorSignal == [i \in DOMAIN combined_results |-> combined_results[i].vector_score]

LexicalSignal == [i \in DOMAIN combined_results |-> combined_results[i].bm25_score]

ConstantSignal(signal) == \A i, j \in DOMAIN signal : signal[i] = signal[j]

\* x is the least (greatest) value of the signal
LeastOf(signal, x) == x \in Range(signal) /\ \A i \in DOMAIN signal : x <= signal[i]

GreatestOf(signal, x) == x \in Range(signal) /\ \A i \in DOMAIN signal : signal[i] <= x

\* the fraction s is half the sum of the min-max normalised values of both
\* signals at candidate i, given their least and greatest values
HalfSumAt(s, i, vlo, vhi, llo, lhi) ==
    LET v == VectorSignal[i]
        l == LexicalSignal[i]
        vn == IF ConstantSignal(VectorSignal) THEN (IF v > 0 THEN 1 ELSE 0) ELSE v - vlo
        vd == IF ConstantSignal(VectorSignal) THEN 1 ELSE vhi - vlo
        ln == IF ConstantSignal(LexicalSignal) THEN (IF l > 0 THEN 1 ELSE 0) ELSE l - llo
        ld == IF ConstantSignal(LexicalSignal) THEN 1 ELSE lhi - llo
    IN  2 * s.num * vd * ld = s.den * (vn * ld + ln * vd)

\* C29: the final score of every candidate is 0.5 * normVector + 0.5 *
\* normLexical, each signal min-max normalised over the candidate set, a
\* constant signal normalised to 1 for a positive raw score and to 0 otherwise;
\* no divisor is zero and every final score lies in [0, 1].
C29_BlendIsHalfSumOfNormalized ==
    bPc = "out" =>
        /\ DOMAIN bScores = DOMAIN combined_results
        /\ \A i \in DOMAIN bScores :
            /\ bScores[i].den > 0
            /\ 0 <= bScores[i].num
            /\ bScores[i].num <= bScores[i].den
            /\ \A vlo, vhi \in VectorScores, llo, lhi \in Bm25Scores :
                (/\ LeastOf(VectorSignal, vlo) /\ GreatestOf(VectorSignal, vhi)
                 /\ LeastOf(LexicalSignal, llo) /\ GreatestOf(LexicalSignal, lhi))
                => HalfSumAt(bScores[i], i, vlo, vhi, llo, lhi)

\* a constant positive vector signal and a lexical signal that varies: the
\* third candidate has 0.5 * 1 + 0.5 * (1 / 3) = 4 / 6
C29_Witness ==
    /\ bPc = "out"
    /\ combined_results = << [vector_score |-> 1, bm25_score |-> 0],
                             [vector_score |-> 1, bm25_score |-> 3],
                             [vector_score |-> 1, bm25_score |-> 1] >>
    /\ bScores[3] = [num |-> 4, den |-> 6]

\* both signals constant and not positive: every final score is 0
C29_WitnessConstantZero ==
    /\ bPc = "out"
    /\ combined_results = << [vector_score |-> -1, bm25_score |-> 0],
                             [vector_score |-> -1, bm25_score |-> 0] >>
    /\ bScores = << [num |-> 0, den |-> 2], [num |-> 0, den |-> 2] >>

\* C30: every result returned on the vector-only path has a relevance score
\* in [0, 1], whatever distances the store reported.
C30_RelevanceInUnitInterval ==
    dPc = "out" =>
        \A i \in DOMAIN dResults :
            /\ 0 <= dResults[i].relevance_score
            /\ dResults[i].relevance_score <= RelOne

----------------------------------------------------------------------------
(* Properties of the provenance tag *)

\* the sub-retrievers of the factory's retriever: the vector retriever first,
\* the lexical (BM25) retriever second
ReturnedByVector(key) == \E p \in Occurrences(key) : p[1] = 1

ReturnedByLexical(key) == \E p \in Occurrences(key) : p[1] = 2

\* C31: the provenance tag of every QueryResult names the signals that
\* produced it: "vector" when only the vector retriever returned the item,
\* "lexical" when only the lexical retriever returned it, "hybrid" exactly
\* when both did.
C31_TagNamesSignals ==
    fPc = "converted" =>
        \A i \in DOMAIN fQueryResults :
            LET key == fQueryResults[i].key
            IN  fQueryResults[i].source_type =
                    IF ReturnedByVector(key) /\ ReturnedByLexical(key) THEN "hybrid"
                    ELSE IF ReturnedByLexical(key) THEN "lexical"
                    ELSE "vector"

----------------------------------------------------------------------------
(* Properties of the ingestion pipeline *)

\* C32: process_document_pipeline removes its input file on every exit path:
\* when it returns a result, when it returns the 'Document is empty' failure
\* and when it raises, no file exists at file_path afterwards.
C32_FileRemovedOnEveryExit ==
    pPc = "exit" => ~pFile

\* the call raised after it had read a file that was on disk
C32_Witness ==
    /\ pPc = "exit"
    /\ pExit = "raised"
    /\ pIn.on_disk
    /\ pIn.text = SomeText
    /\ ~pFile

\* the call returned the 'Document is empty' failure for a file that was on disk
C32_WitnessEmpty ==
    /\ pPc = "exit"
    /\ pExit = "failed"
    /\ pIn.on_disk
    /\ ~pFile

\* the call returned its results
C32_WitnessReturned ==
    /\ pPc = "exit"
    /\ pExit = "returned"
    /\ pIn.on_disk
    /\ ~pFile

----------------------------------------------------------------------------
(* Properties of the document router *)

\* the rules, by position, that apply to the classification: the category, if
\* the rule gives one, is the classified one, and the '>=' threshold, if the
\* rule gives one, is not above the classified confidence
ApplicableRules ==
    { i \in DOMAIN routing_rules.rules :
        LET cond == routing_rules.rules[i].condition
        IN  /\ cond.category \in {None, classification_result.recommended_collection}
            /\ \A op \in DOMAIN cond.confidence :
                  op = ">=" => cond.confidence[op] <= classification_result.confidence }

FirstApplicable == CHOOSE i \in ApplicableRules : \A j \in ApplicableRules : i <= j

\* C33: the routing decision applies the first rule, in rule order, whose
\* category (if given) equals the classified category and whose '>=' confidence
\* threshold (if given) is not above the classified confidence: rule_matched is
\* true and target collection, chunk size and requires_validation are those of
\* that rule's action (the classified category, 512 and false for what the
\* action leaves out). If no rule applies, rule_matched is false, the target
\* collection is the classified category, and the chunk size is the suggested
\* size when that is an integer, else the default.
C33_FirstApplicableRuleDecides ==
    rtPc = "out" =>
        IF ApplicableRules # {}
        THEN LET action == routing_rules.rules[FirstApplicable].action
             IN  /\ decision.rule_matched
                 /\ decision.target_collection =
                       IF "target_collection" \in DOMAIN action
                       THEN action["target_collection"]
                       ELSE classification_result.recommended_collection
                 /\ decision.chunk_size =
                       IF "chunk_size" \in DOMAIN action THEN action["chunk_size"]
                       ELSE DefaultChunkSize
                 /\ decision.requires_validation =
                       IF "requires_validation" \in DOMAIN action
                       THEN action["requires_validation"] ELSE FALSE
        ELSE /\ ~decision.rule_matched
             /\ decision.target_collection = classification_result.recommended_collection
             /\ decision.chunk_size =
                   IF classification_result.suggested_chunk_size.type = "int"
                   THEN classification_result.suggested_chunk_size.val
                   ELSE IF "chunk_size" \in DOMAIN routing_rules.defaults
                        THEN routing_rules.defaults["chunk_size"]
                        ELSE DefaultChunkSize

\* two rules apply, the confidence is just at the threshold of the first, and
\* the decision is that of the first
C33_Witness ==
    /\ rtPc = "out"
    /\ Len(routing_rules.rules) = 2
    /\ ApplicableRules = {1, 2}
    /\ routing_rules.rules[1].condition.category = "legal_documents"
    /\ ">=" \in DOMAIN routing_rules.rules[1].condition.confidence
    /\ classification_result.confidence = 7
    /\ routing_rules.rules[1].action # routing_rules.rules[2].action
    /\ decision.rule_matched
    /\ decision.target_collection = "contracts"
    /\ decision.chunk_size = 1024

\* the only rule does not apply (confidence below its threshold) and the
\* suggested size is taken
C33_WitnessNoRule ==
    /\ rtPc = "out"
    /\ Len(routing_rules.rules) = 1
    /\ ApplicableRules = {}
    /\ ~decision.rule_matched
    /\ decision.chunk_size = 1234

----------------------------------------------------------------------------
(* Properties of the hybrid path of the engine *)

\* C34: the metadata filters of a query restrict retrieval on every path:
\* every result a call with a filter returns satisfies the filter, whether the
\* collection was served by the hybrid path or by the vector-only fallback, and
\* the entry cached under a filtered key holds only results matching the filter.
C34_FiltersRestrictEveryPath ==
    /\ (pc = "returned" /\ call.filters # NoFilter) =>
          \A i \in DOMAIN result : Matches(result[i], call.filters)
    /\ \A key \in DOMAIN cache :
          key.filters # NoFilter =>
              \A i \in DOMAIN cache[key] : Matches(cache[key][i], key.filters)

\* C35: the requested resultCount reaches the retrieval on the hybrid path:
\* for one target collection that holds at least resultCount matching chunks,
\* with minRelevance 0 and a retrieval that succeeds, query returns exactly
\* resultCount results, for every resultCount >= 1.
C35_ResultCountReachesRetrieval ==
    (hPc = "out" /\ hCall.n_results >= 1 /\ hStored >= hCall.n_results) =>
        Len(hResult) = hCall.n_results

\* a retrieval that failed: the collection was not found or reported empty,
\* the task raised (hybrid path and fallback both failed), or the hybrid path
\* answered for a collection that holds nothing (a collection that holds
\* chunks never yields an empty fused list here)
FailedRetrieval(t) ==
    \/ t.via \in {"notfound", "empty"}
    \/ t.st = "exc"
    \/ (t.via = "hybrid" /\ t.raw = <<>>)

\* C36: a per-collection retrieval that fails writes nothing to the query
\* cache: when the collection is not found, is empty, or fails on the hybrid
\* path and on the fallback, the step that completes the task leaves the cache
\* as it was, so a later query for the same key is a miss.
C36_FailedRetrievalWritesNothing ==
    [][ \A i \in DOMAIN tasks :
            (/\ i \in DOMAIN tasks'
             /\ tasks[i].st = "pending"
             /\ tasks'[i].st # "pending"
             /\ FailedRetrieval(tasks'[i])) => cache' = cache ]_vars

----------------------------------------------------------------------------
(* add_nodes on a manager that has not loaded the persisted index *)

\* the position at which this identifier first stands in the list
FirstPositionOf(list, id) ==
    CHOOSE i \in DOMAIN list :
        /\ list[i].id = id
        /\ \A j \in DOMAIN list : list[j].id = id => i <= j

\* the corpus after the step holds every chunk of `before` at its position
\* (with the text handed last when the call names its identifier), followed
\* by the chunks whose identifiers are new, in the order of the call
CorpusIsUpsertOf(before, new_nodes, after) ==
    /\ Len(after) = Len(before) + Cardinality(IdsOf(new_nodes) \ IdsOf(before))
    /\ \A p \in DOMAIN before :
          /\ p \in DOMAIN after
          /\ after[p].id = before[p].id
          /\ after[p].text = IF before[p].id \in IdsOf(new_nodes)
                             THEN LastTextOf(new_nodes, before[p].id)
                             ELSE before[p].text
    /\ \A p \in DOMAIN after \ DOMAIN before :
          /\ after[p].id \in IdsOf(new_nodes) \ IdsOf(before)
          /\ after[p].text = LastTextOf(new_nodes, after[p].id)
          /\ \A q \in DOMAIN after \ DOMAIN before :
                p < q => FirstPositionOf(new_nodes, after[p].id)
                            < FirstPositionOf(new_nodes, after[q].id)

\* the add of a new manager whose file holds a persisted index
AddOnUnloadedManager ==
    /\ iOp = "new"
    /\ index_file.kind = "blob"
    /\ iOp' = "add"
    /\ iArg' # <<>>

\* the first half of C37: no persisted chunk is lost in memory
AddKeepsPersistedCorpus ==
    [][ AddOnUnloadedManager => CorpusIsUpsertOf(index_file.nodes, iArg', nodes') ]_vars

\* C37: add on a manager that has not loaded its persisted index first loads
\* it: after add(chunks) the corpus holds every chunk of the persisted corpus
\* (those with the same identifier replaced in place) followed by the new
\* chunks, and this corpus is what the file holds afterwards.
C37_AddLoadsPersistedFirst ==
    [][ AddOnUnloadedManager =>
            /\ CorpusIsUpsertOf(index_file.nodes, iArg', nodes')
            /\ index_file'.kind = "blob"
            /\ index_file'.nodes = nodes' ]_vars

----------------------------------------------------------------------------
(* Diagnostics of the fusion *)

RECURSIVE SumOfContributions(_, _)
\* the sum of the 'contribution' values of a contribution record over these
\* sub-retrievers
SumOfContributions(contribs, idxs) ==
    IF idxs = {} THEN 0
    ELSE LET x == CHOOSE y \in idxs : TRUE
         IN  contribs[x].contribution + SumOfContributions(contribs, idxs \ {x})

\* C38: for every fused item the diagnostics agree with the score: the fused
\* score equals the sum of the 'contribution' values in the item's
\* per-retriever contribution record, for all lists of the sub-retrievers, a
\* list in which the same item stands at more than one rank included.
C38_ScoreIsSumOfContributions ==
    fPc = "done" =>
        \A i \in DOMAIN fOut :
            fOut[i].score = SumOfContributions(fOut[i].retriever_contributions,
                                               DOMAIN fOut[i].retriever_contributions)

----------------------------------------------------------------------------
(* Properties of the chunking loop *)

\* every position of the text lies in some chunk
TextCovered ==
    \A i \in 0..(text_length - 1) : \E c \in DOMAIN chunks : i \in chunks[c]

\* C39: the chunking loop terminates for every non-empty text, every
\* chunk_size >= 1 and every overlap >= 0, overlap >= chunk_size included, and
\* on termination every character of the text lies in at least one chunk.
\* Termination is stated on the loop variable: a pass after which the loop goes
\* on has moved start forward (start only changes by chunk_size - overlap, so a
\* pass that goes on without moving it forward is followed by passes that do
\* the same, for ever).
C39_ChunkLoopTerminatesAndCovers ==
    /\ [][ (cPc = "loop" /\ cPc' = "loop") => start' > start ]_vars
    /\ [](cPc = "returned" => TextCovered)

----------------------------------------------------------------------------
(* Properties of the upload section *)

InSection == { r \in Uploads : uPc[r] = "inside" }

\* requests that hold a slot: inside the section, or woken with a slot
\* reserved for them
SlotHolders == { r \in Uploads : uPc[r] \in {"inside", "woken"} }

\* C40: at most MAX_CONCURRENT_UPLOADS upload requests are inside the upload
\* section at any time; a request gives its slot back on every exit path
\* (return, validation error, ingestion error), so that free slots and slot
\* holders always add up to MAX_CONCURRENT_UPLOADS; when a request inside the
\* section ends while others wait, the one waiting longest is handed the slot
\* in that step, and a request that was handed a slot gets into the section.
C40_SlotsBoundedAndReleased ==
    /\ [](Cardinality(InSection) <= MAX_CONCURRENT_UPLOADS)
    /\ [](uValue + Cardinality(SlotHolders) = MAX_CONCURRENT_UPLOADS)
    /\ [][ \A r \in Uploads :
              (/\ uPc[r] = "inside" /\ uPc'[r] = "done"
               /\ \E w \in Uploads : uPc[w] = "waiting")
              => LET first == CHOOSE i \in DOMAIN uWaiters :
                                 /\ uPc[uWaiters[i]] = "waiting"
                                 /\ \A j \in DOMAIN uWaiters :
                                       uPc[uWaiters[j]] = "waiting" => i <= j
                 IN  uPc'[uWaiters[first]] = "woken" ]_vars
    /\ \A r \in Uploads : (uPc[r] = "woken") ~> (uPc[r] = "inside")

\* the section was full, a request left it by an ingestion error, and the
\* request that waited was handed its slot
C40_Witness ==
    \E a, b, c \in Uploads :
        /\ uPc[a] = "done" /\ uExit[a] = "ingestion_error"
        /\ uPc[b] = "inside"
        /\ uPc[c] = "woken"
        /\ uValue = 0

============================================================================
